---- MODULE Spec2Model ----
(***************************************************************************)
(* Model of the delta-update client (src/src/lib/delta-updater/index.js,   *)
(* the DeltaUpdater class), of its TypeScript variant                      *)
(* (src/unnamed/part_003), of the download helper                          *)
(* (src/unnamed/part_002) and of the build-time delta pipeline             *)
(* (src/src/lib/delta-builder/create-all-deltas.ts, createAllDeltas).      *)
(*                                                                         *)
(* One action is one run-to-completion step of the JavaScript event loop:  *)
(* a handler, or the continuation of an async function after an await,     *)
(* runs atomically up to its next await.  The native updater               *)
(* (electron-updater), the HTTP servers and the file system are the        *)
(* environment: their answers are nondeterministic choices.                *)
(***************************************************************************)
EXTENDS Integers, Sequences, FiniteSets, TLC

VARIABLES
  platform,        \* process.platform
  isPackaged,      \* app.isPackaged
  provider,        \* updateConfig.provider
  appVersion,      \* app.getVersion()
  phase,           \* "constructed" | "running" | "exited"
  hostURL,         \* this.hostURL (NoURL is null)
  updaterWindow,   \* this.updaterWindow is an open splash window
  bootPromise,     \* promise returned by boot(): "none" | "pending" | "resolved" | "rejected"
  timerArmed,      \* the setInterval of pollForUpdates is active
  ticks,           \* interval ticks fired so far
  checkCalls,      \* calls of this.checkForUpdates so far
  lookups,         \* getGithubFeedURL promises in flight (checkForUpdates)
  nativeChecking,  \* autoUpdater.checkForUpdates() in flight
  nativeChecks,    \* calls of autoUpdater.checkForUpdates() so far
  nativeDownloads, \* autoUpdater.downloadUpdate() requests in flight
  nativeInfo,      \* version of the update the native updater announced last
  cycles,          \* one record per update-available event handled
  updateDetails,   \* update-details.json (NoRecord when absent)
  holder,          \* content of the patch file in the deltas holder directory
  helpers,         \* darwin: the two helper executables
  autoUpdateInfo,  \* this.autoUpdateInfo (NoInfo is null)
  applyTimers,     \* setTimeout callbacks scheduled by quitAndInstall
  notifications,   \* update notifications shown (clickable)
  apply,           \* the apply sequence in progress
  errs,            \* causes of the 'error' emissions, dispatches and boot rejections
  hostCalls,       \* calls of quitAndInstall() by the host application so far
  buildPlatform,   \* createAllDeltas: the platform argument, "win" | "mac"
  releaseIndex,    \* the releases getPreviousReleases resolves with
  build,           \* the createAllDeltas call in progress (its locals and position)
  cache,           \* cacheDir: data/<fileName>, data/<version>/ and deltas/
  output,          \* outputDir: the published files and the manifest
  history,         \* one summary per finished createAllDeltas call
  faults,          \* environment failures injected so far
  deltaBuilder,    \* the DeltaBuilder.build call (delta-builder/index.ts)
  resolver         \* the getPreviousReleases call of the supplied resolver

client == <<platform, isPackaged, provider, appVersion, phase, hostURL,
            updaterWindow, bootPromise, timerArmed, ticks, checkCalls, lookups,
            nativeChecking, nativeChecks, nativeDownloads, nativeInfo, cycles,
            updateDetails, holder, helpers, autoUpdateInfo, applyTimers,
            notifications, apply, errs, hostCalls>>

\* The state of the build-time pipeline; the client never touches it.
builder == <<buildPlatform, releaseIndex, build, cache, output, history, faults,
             deltaBuilder, resolver>>

vars == <<client, builder>>

config == <<platform, isPackaged, provider, appVersion>>

----------------------------------------------------------------------------
(* Bounds of the model *)

MaxTicks == 1
MaxChunks == 1
MaxRedirects == 1
MaxChunksTS == 2
MaxHostCalls == 1

----------------------------------------------------------------------------
(* Values *)

Platforms == {"win32", "darwin"}
Providers == {"github", "generic"}

\* Running versions: a stable one and one whose first prerelease identifier
\* is the number 0.
AppVersions == {"1.1.0", "1.1.0-0"}
TargetVersions == {"2.0.0", "2.1.0"}
PriorVersions == {"1.0.0", "1.1.0"}

\* The patch file name published for the running version.
PatchName == "App-delta.exe"

\* File contents and their SHA-256 digests.  "" as a digest is null.
Absent == "absent"
Partial == "partial"
Contents == {"c1", "c2"}
FileStates == {Absent, Partial} \cup Contents

\* URLs are the path segments after the host; a trailing "" segment is a
\* trailing slash.  NoURL is null.
NoURL == <<>>
FeedURL == <<"feed", "">>
FeedURLNoSlash == <<"feed">>

----------------------------------------------------------------------------
(* Pure helpers *)

\* crypto sha256 over the file's bytes; "" (null) when the file is absent.
Digest(content) ==
  CASE content = "c1" -> "h1"
    [] content = "c2" -> "h2"
    [] content = Partial -> "h0"
    [] OTHER -> ""

computeSHA256(file) ==
  IF file = Absent THEN "" ELSE Digest(file)

isSHACorrectAlways(file, correctSHA) ==
  TRUE

isSHACorrect(file, correctSHA) ==
  computeSHA256(file) = correctSHA

\* semver.prerelease(version): the prerelease identifiers, numeric ones as
\* numbers; <<>> is null.
prerelease(version) ==
  IF version = "1.1.0-0" THEN <<[num |-> TRUE, id |-> "0"]>> ELSE <<>>

getChannel(version) ==
  IF prerelease(version) = <<>>
    THEN [num |-> FALSE, id |-> "latest"]
    ELSE Head(prerelease(version))

\* JavaScript falsiness of a channel value: the number 0 or the empty string.
Falsy(channel) ==
  \/ channel.num /\ channel.id = "0"
  \/ ~channel.num /\ channel.id = ""

Front(s) == SubSeq(s, 1, Len(s) - 1)

\* new URL(url) with the pathname made to end in "/".  Defined on URLs only:
\* new URL(null) throws.
newBaseUrl(url) ==
  IF url[Len(url)] = "" THEN url ELSE Append(url, "")

\* new URL(pathname, baseUrl): the last segment of the base is replaced.
\* Defined on a base that is a URL only: a null base throws.
newUrlFromBase(pathname, baseUrl) ==
  Append(Front(baseUrl), pathname)

jsonFileName(plat) ==
  IF plat = "win32" THEN "delta-win.json" ELSE "delta-mac.json"

getDeltaJSONUrl == newUrlFromBase(jsonFileName(platform), hostURL)

getDeltaURL(deltaPath) == newUrlFromBase(deltaPath, hostURL)

\* Where the release host publishes the manifest and the patch files.
PublishedManifestURL == <<"feed", jsonFileName(platform)>>
PublishedPatchURL == <<"feed", PatchName>>

----------------------------------------------------------------------------
(* The build-time pipeline (create-all-deltas.ts): bounds, values, helpers *)

MaxReleases == 11
MaxRuns == 2
MaxFaults == 1

\* Version k.0.0 is written k.  The release being built is newer than every
\* release of the index.
LatestVersion == MaxReleases + 1

\* A release of the index: its tag ("v2.0.0" or "2.0.0") and the download
\* URL of one of its assets.  The extension of the asset is the one of the
\* platform the index was asked for (ForPlatform).
Release(num, prefixed, asset) ==
  [version |-> [prefixed |-> prefixed, num |-> num],
   url |-> <<"releases", "download", num,
             [asset |-> asset, num |-> num, ext |-> ""]>>]

\* The full-installer extension of a platform (target nsis on win).
Ext(p) == IF p = "win" THEN ".exe" ELSE ".zip"

\* getPreviousReleases({ platform, target }): the index of that platform.
ForPlatform(index, p) ==
  [k \in 1..Len(index) |->
     [index[k] EXCEPT !.url[4] = [@ EXCEPT !.ext = Ext(p)]]]

\* n releases, newest first, one asset each.
Descending(n) ==
  [i \in 1..n |-> Release(n + 1 - i, TRUE, "App")]

\* A release with two assets of the platform's extension gives two entries
\* of the same version.
TwoAssets ==
  <<Release(2, TRUE, "App"), Release(2, TRUE, "App-x64"), Release(1, FALSE, "App")>>

Indexes ==
  {Descending(n) : n \in {0, 1, 2, MaxReleases - 1, MaxReleases}} \cup {TwoAssets}

\* Directories are finite maps from names to contents.
NoFiles == <<>>

Put(dir, name, content) ==
  [x \in DOMAIN dir \cup {name} |-> IF x = name THEN content ELSE dir[x]]

Drop(dir, name) ==
  [x \in DOMAIN dir \ {name} |-> dir[x]]

Min(a, b) == IF a < b THEN a ELSE b

\* semver.clean: the version without the leading "v".
semverClean(version) == version.num

\* path.basename(url)
fileNameFromUrl(url) == url[Len(url)]

preparePreviousReleases(previousReleases) ==
  [k \in 1..Len(previousReleases) |->
     [url |-> previousReleases[k].url,
      version |-> semverClean(previousReleases[k].version),
      fileName |-> fileNameFromUrl(previousReleases[k].url)]]

sliceAll(allReleases) ==
  allReleases

\* allReleases.slice(0, 10)
slice(allReleases) ==
  SubSeq(allReleases, 1, Min(Len(allReleases), 10))

installerFileName(version) == [ext |-> "-delta.exe", version |-> version]
deltaFileName(version) == [ext |-> ".delta", version |-> version]

\* The file createAllDeltas publishes for a version and records as its path.
publishedFileName(version) ==
  IF buildPlatform = "win" THEN installerFileName(version)
                           ELSE deltaFileName(version)

existsSyncNever(dir, name) ==
  FALSE

\* fs.existsSync(path.join(dir, name))
existsSync(dir, name) ==
  name \in DOMAIN dir

\* utils.computeSHA256: the digest of the file's bytes (readFileSync throws
\* when the file is missing; callers test Readable first).
Readable(dir, name) == name \in DOMAIN dir

computeSHA256OfFile(dir, name) == <<"sha256", dir[name]>>

\* kinds, diffFailed, produced, log and inflight record what the call has met
\* and done: the kinds of failures, the versions whose hdiffz failed, the
\* versions whose published file this call has made from a patch it wrote,
\* the stages in their order, the asynchronous operations awaited.
Idle ==
  [pc |-> "idle", i |-> 0, previousReleases |-> <<>>, deltaJSON |-> NoFiles,
   downloads |-> 0, extractions |-> 0, faulty |-> FALSE,
   kinds |-> {}, diffFailed |-> {}, produced |-> {}, log |-> <<>>,
   inflight |-> {}]

EmptyCache == [data |-> NoFiles, extracted |-> NoFiles, deltas |-> NoFiles]

\* manifest is <<>> while delta-<platform>.json does not exist.
EmptyOutput == [files |-> NoFiles, manifest |-> <<>>]

\* No DeltaBuilder.build call: createAllDeltas is called on its own.
NoDeltaBuilder ==
  [pc |-> "none", platforms |-> <<>>, all |-> <<>>, buildFiles |-> {}]

\* No call of the resolver.
NoResolver == [pc |-> "none"]

\* No build runs in the client's process.
NoBuild ==
  /\ buildPlatform = "win"
  /\ releaseIndex = <<>>
  /\ build = Idle
  /\ cache = EmptyCache
  /\ output = EmptyOutput
  /\ history = <<>>
  /\ faults = 0
  /\ deltaBuilder = NoDeltaBuilder
  /\ resolver = NoResolver

----------------------------------------------------------------------------
(* State *)

NoRecord == [exists |-> FALSE, isDelta |-> FALSE, attemptedVersion |-> "",
             appVersion |-> ""]

NoInfo == [set |-> FALSE, delta |-> FALSE, deltaPath |-> <<>>, version |-> ""]

NoSignal == [sent |-> FALSE, deltaPath |-> <<>>, version |-> ""]

NoEntry == [present |-> FALSE, path |-> "", sha256 |-> ""]

NoErrs == [emitted |-> {}, dispatched |-> {}, rejected |-> {}]

NoHelpers == [macUpdater |-> "absent", hpatchz |-> "absent"]

\* prepareUpdater returns before setting updateDetailsJSON, deltaHolderPath
\* and the helper paths when the channel is falsy.
pathsSet == ~Falsy(getChannel(appVersion))

\* this.updateConfig is read by the constructor of a packaged app only.
hasUpdateConfig == isPackaged

\* The record a previous run of the same installation can have left behind.
\* writeAutoUpdateDetails never writes on darwin, nor when the path is unset.
PastRecords(plat, ver) ==
  IF plat = "darwin" \/ Falsy(getChannel(ver))
    THEN {NoRecord}
    ELSE {NoRecord}
         \cup {[exists |-> TRUE, isDelta |-> TRUE, attemptedVersion |-> "2.0.0",
                appVersion |-> v] : v \in {ver, "1.0.0"}}

\* The patch file a previous run can have left in the holder directory.
PastHolder(ver) ==
  IF Falsy(getChannel(ver)) THEN {Absent} ELSE {Absent, "c1"}

Init ==
  /\ platform \in Platforms
  /\ isPackaged \in BOOLEAN
  /\ provider \in Providers
  /\ appVersion \in AppVersions
  /\ isPackaged = FALSE =>
       platform = "win32" /\ provider = "generic" /\ appVersion = "1.1.0"
  /\ phase = "constructed"
  /\ hostURL \in (IF isPackaged THEN {NoURL, FeedURL} ELSE {NoURL})
  /\ provider = "github" => hostURL = NoURL
  /\ updaterWindow = FALSE
  /\ bootPromise = "none"
  /\ timerArmed = FALSE
  /\ ticks = 0
  /\ checkCalls = 0
  /\ lookups = 0
  /\ nativeChecking = FALSE
  /\ nativeChecks = 0
  /\ nativeDownloads = 0
  /\ nativeInfo = ""
  /\ cycles = <<>>
  /\ updateDetails \in (IF isPackaged THEN PastRecords(platform, appVersion)
                                     ELSE {NoRecord})
  /\ holder \in (IF isPackaged THEN PastHolder(appVersion) ELSE {Absent})
  /\ helpers = NoHelpers
  /\ autoUpdateInfo = NoInfo
  /\ applyTimers = 0
  /\ notifications = 0
  /\ apply = <<>>
  /\ errs = NoErrs
  /\ hostCalls = 0
  /\ NoBuild

listening == isPackaged /\ phase = "running"

\* resolve() / reject() of the boot promise, and the .then / .catch of boot
\* that closes the splash window.
Settle(how) ==
  /\ bootPromise' = (IF bootPromise = "pending" THEN how ELSE bootPromise)
  /\ updaterWindow' = FALSE

\* autoUpdater.checkForUpdates()
NativeCheck ==
  /\ nativeChecking' = TRUE
  /\ nativeChecks' = nativeChecks + 1

\* checkForUpdates(resolve, reject) with this.hostURL = h
checkForUpdates(h) ==
  /\ checkCalls' = checkCalls + 1
  /\ IF h = NoURL /\ hasUpdateConfig /\ provider = "github"
       THEN lookups' = lookups + 1 /\ UNCHANGED <<nativeChecking, nativeChecks>>
       ELSE NativeCheck /\ UNCHANGED lookups

\* guessHostURL: the provider's answer r (NoURL: it returned null or threw)
guessHostURL(r) ==
  IF ~hasUpdateConfig \/ r = NoURL THEN NoURL ELSE newBaseUrl(r)

\* boot({ splashScreen }) up to the end of attachListeners.
boot(splashScreen, r) ==
  /\ phase = "constructed"
  /\ LET h == IF hostURL # NoURL THEN hostURL ELSE guessHostURL(r) IN
       /\ hostURL' = h
       /\ updaterWindow' = splashScreen
       /\ bootPromise' = (IF splashScreen THEN "pending" ELSE "resolved")
       /\ IF ~isPackaged
            THEN /\ phase' = "devwait"
                 /\ UNCHANGED <<timerArmed, checkCalls, lookups, nativeChecking,
                                nativeChecks>>
            ELSE /\ phase' = "running"
                 /\ timerArmed' = TRUE
                 /\ checkForUpdates(h)
  /\ UNCHANGED <<config, builder, hostCalls, nativeInfo, ticks, nativeDownloads, cycles, updateDetails, holder,
                 helpers, autoUpdateInfo, applyTimers, notifications, apply, errs>>

\* attachListeners of an unpackaged app: setTimeout(resolve, 1000)
devTimeout ==
  /\ phase = "devwait"
  /\ phase' = "running"
  /\ Settle("resolved")
  /\ UNCHANGED <<config, builder, hostCalls, nativeInfo, hostURL, timerArmed, ticks, checkCalls, lookups,
                 nativeChecking, nativeChecks, nativeDownloads, cycles,
                 updateDetails, holder, helpers, autoUpdateInfo, applyTimers,
                 notifications, apply, errs>>

tickWhenIdle ==
  /\ timerArmed
  /\ phase = "running"
  /\ ticks < MaxTicks
  /\ nativeDownloads = 0
  /\ \A c \in DOMAIN cycles : cycles[c].pc \in {"done", "rejected", "hung"}
  /\ ticks' = ticks + 1
  /\ checkForUpdates(hostURL)
  /\ UNCHANGED <<config, builder, hostCalls, nativeInfo, phase, hostURL, updaterWindow, bootPromise, timerArmed,
                 nativeDownloads, cycles, updateDetails, holder, helpers,
                 autoUpdateInfo, applyTimers, notifications, apply, errs>>

\* The setInterval callback of pollForUpdates.
tick ==
  /\ timerArmed
  /\ phase = "running"
  /\ ticks < MaxTicks
  /\ ticks' = ticks + 1
  /\ checkForUpdates(hostURL)
  /\ UNCHANGED <<config, builder, hostCalls, nativeInfo, phase, hostURL, updaterWindow, bootPromise, timerArmed,
                 nativeDownloads, cycles, updateDetails, holder, helpers,
                 autoUpdateInfo, applyTimers, notifications, apply, errs>>

\* The error causes recorded when 'error' is dispatched to the splash window
\* and the boot promise rejected.
Surface(cause, emitted) ==
  errs' = [emitted |-> IF emitted THEN errs.emitted \cup {cause} ELSE errs.emitted,
           dispatched |-> IF updaterWindow THEN errs.dispatched \cup {cause}
                                           ELSE errs.dispatched,
           rejected |-> IF bootPromise = "pending" THEN errs.rejected \cup {cause}
                                                   ELSE errs.rejected]

\* checkForUpdates: the .then / .catch of getGithubFeedURL, which answered r
\* (NoURL: null).  newBaseUrl(null) throws inside .then and lands in .catch.
githubLookupDone(r) ==
  /\ listening
  /\ lookups > 0
  /\ lookups' = lookups - 1
  /\ IF r = NoURL
       THEN /\ Surface("lookup", FALSE)
            /\ Settle("rejected")
            /\ UNCHANGED <<hostURL, nativeChecking, nativeChecks>>
       ELSE /\ hostURL' = newBaseUrl(r)
            /\ NativeCheck
            /\ UNCHANGED <<updaterWindow, bootPromise, errs>>
  /\ UNCHANGED <<config, builder, hostCalls, nativeInfo, phase, timerArmed, ticks, checkCalls, nativeDownloads,
                 cycles, updateDetails, holder, helpers, autoUpdateInfo,
                 applyTimers, notifications, apply>>

----------------------------------------------------------------------------
(* The update-available cycle: the handler and doSmartDownload *)

\* getAutoUpdateDetails: the parsed record, NoRecord (null) when the file is
\* missing or its path unset.  The read is a snapshot of the file.
getAutoUpdateDetails ==
  IF pathsSet /\ updateDetails.exists THEN updateDetails ELSE NoRecord

NewCycle(v) ==
  [pc |-> "readRecord", version |-> v,
   recMatch |-> FALSE,
   fetches |-> 0, helperDls |-> 0, patchDls |-> 0, fullReqs |-> 0,
   signal |-> NoSignal, fail |-> "none", entry |-> NoEntry, cache |-> "unknown",
   redirects |-> 0, chunks |-> 0, disturbed |-> "no", latest |-> "",
   checked |-> {}]

\* The counters local to a downloadFile call are gone when it is over.
Settled(cy) == [cy EXCEPT !.redirects = 0, !.chunks = 0, !.disturbed = "no"]

\* Outcomes of a synchronous stretch of the cycle: the cycle's new record,
\* whether autoUpdater.downloadUpdate() was called and whether deltaDownloaded
\* emitted 'update-downloaded'.
Full(cy, why) ==
  [cy |-> [Settled(cy) EXCEPT !.pc = "done", !.fullReqs = @ + 1, !.fail = why],
   full |-> TRUE, ready |-> FALSE]

\* An exception thrown outside every try block: the promise of
\* doSmartDownload rejects and nobody handles it.
Escape(cy, why) ==
  [cy |-> [Settled(cy) EXCEPT !.pc = "rejected", !.fail = why],
   full |-> FALSE, ready |-> FALSE]

Wait(cy) == [cy |-> cy, full |-> FALSE, ready |-> FALSE]

deltaDownloaded(cy, deltaPath) ==
  [cy |-> [Settled(cy) EXCEPT !.pc = "done",
                     !.signal = [sent |-> TRUE, deltaPath |-> deltaPath,
                                 version |-> cy.version]],
   full |-> FALSE, ready |-> TRUE]

handleUpdateDownloadedKeepsFirst(info) ==
  /\ autoUpdateInfo' = (IF autoUpdateInfo.set THEN autoUpdateInfo ELSE info)
  /\ IF updaterWindow
       THEN /\ Settle("resolved")
            /\ applyTimers' = applyTimers + 1
            /\ UNCHANGED notifications
       ELSE /\ notifications' = notifications + 1
            /\ UNCHANGED <<bootPromise, updaterWindow, applyTimers>>

\* handleUpdateDownloaded(info, resolve), with quitAndInstall and
\* showUpdateNotification.
handleUpdateDownloaded(info) ==
  /\ autoUpdateInfo' = info
  /\ IF updaterWindow
       THEN /\ Settle("resolved")
            /\ applyTimers' = applyTimers + 1
            /\ UNCHANGED notifications
       ELSE /\ notifications' = notifications + 1
            /\ UNCHANGED <<bootPromise, updaterWindow, applyTimers>>

\* The effects of an outcome on the shared state, written as the code that
\* reports every fallback to the splash window would have them.
CommitSurfacing(c, out) ==
  /\ cycles' = [cycles EXCEPT ![c] = out.cy]
  /\ nativeDownloads' = nativeDownloads + (IF out.full THEN 1 ELSE 0)
  /\ errs' = (IF out.full /\ out.cy.fail # "lastAttempt"
               THEN [errs EXCEPT !.dispatched = @ \cup {"fallback"}]
               ELSE errs)
  /\ IF out.ready
       THEN handleUpdateDownloaded([set |-> TRUE, delta |-> TRUE,
                                    deltaPath |-> out.cy.signal.deltaPath,
                                    version |-> out.cy.signal.version])
       ELSE UNCHANGED <<autoUpdateInfo, bootPromise, updaterWindow, applyTimers,
                        notifications>>

\* The effects of an outcome on the shared state: no fallback emits or
\* dispatches 'error' or rejects the boot promise.
Commit(c, out) ==
  /\ cycles' = [cycles EXCEPT ![c] = out.cy]
  /\ nativeDownloads' = nativeDownloads + (IF out.full THEN 1 ELSE 0)
  /\ errs' = errs
  /\ IF out.ready
       THEN handleUpdateDownloaded([set |-> TRUE, delta |-> TRUE,
                                    deltaPath |-> out.cy.signal.deltaPath,
                                    version |-> out.cy.signal.version])
       ELSE UNCHANGED <<autoUpdateInfo, bootPromise, updaterWindow, applyTimers,
                        notifications>>

\* The cycle has compared the SHA-256 of a file with the manifest's
\* (isSHACorrect returned true for it).
Checked(cy, file) ==
  [cy EXCEPT !.checked = @ \cup {file}]

\* path.join(this.deltaHolderPath, name)
HolderPath(name) == <<"deltas", name>>

CacheCheckExistsOnly(file, shaVal) ==
  file # Absent

\* fs.existsSync(deltaPath) && isSHACorrect(deltaPath, shaVal)
CacheCheck(file, shaVal) ==
  file # Absent /\ isSHACorrect(file, shaVal)

\* doSmartDownload from path.join (line 483) to await fs.ensureDir.
\* path.join throws a TypeError on an undefined path.
PatchStep(cy) ==
  IF cy.entry.path = ""
    THEN Escape(cy, "noPath")
    ELSE LET seen == [cy EXCEPT !.cache =
                        IF Digest(holder) = cy.entry.sha256 THEN "hit" ELSE "miss"]
         IN IF CacheCheck(holder, cy.entry.sha256)
              THEN deltaDownloaded(Checked(seen, "patch"),
                                   HolderPath(cy.entry.path))
              ELSE Wait([seen EXCEPT !.pc = "ensureDir"])

\* The manifest bodies a release host can serve: a JSON object with an entry
\* for some of the prior versions, an entry having a path and a sha256 or
\* lacking either.
EntryChoices ==
  {[present |-> TRUE, path |-> p, sha256 |-> h] :
     p \in {PatchName, ""}, h \in {"h1", ""}}

Manifests ==
  UNION {[K -> EntryChoices] : K \in SUBSET PriorVersions}

\* deltaJSON[appVersion]
Lookup(deltaJSON, version) ==
  IF version \in DOMAIN deltaJSON THEN deltaJSON[version] ELSE NoEntry

WithManifestNoHelpers(cy, deltaJSON) ==
  LET deltaDetails == Lookup(deltaJSON, appVersion) IN
    IF ~deltaDetails.present THEN Full(cy, "noEntry")
    ELSE IF deltaDetails.sha256 = "" THEN Full(cy, "noSha")
    ELSE PatchStep([cy EXCEPT !.entry = deltaDetails])

\* doSmartDownload from "const deltaDetails" (line 448) to the first await
\* of the darwin branch or of the patch step.
WithManifest(cy, deltaJSON) ==
  LET deltaDetails == Lookup(deltaJSON, appVersion) IN
    IF ~deltaDetails.present THEN Full(cy, "noEntry")
    ELSE IF deltaDetails.sha256 = "" THEN Full(cy, "noSha")
    ELSE IF platform = "darwin"
      THEN Wait([cy EXCEPT !.pc = "helper1", !.entry = deltaDetails,
                           !.helperDls = @ + 1])
      ELSE PatchStep([cy EXCEPT !.entry = deltaDetails])

\* doSmartDownload from its first line to await fetch(deltaJSONUrl).
\* getDeltaJSONUrl throws a TypeError when hostURL is null.
doSmartDownload(cy) ==
  IF Falsy(getChannel(appVersion))
    THEN [cy |-> [cy EXCEPT !.pc = "done", !.fail = "noChannel"],
          full |-> FALSE, ready |-> FALSE]
  ELSE IF hostURL = NoURL
    THEN Escape(cy, "noHost")
    ELSE Wait([cy EXCEPT !.pc = "fetching", !.fetches = @ + 1])

SkipRecordCheck(updateDetailsRead) ==
  FALSE

AnyRecordSuppresses(updateDetailsRead) ==
  updateDetailsRead.exists

\* The loop-avoidance test of the update-available handler.
lastAttemptFailed(updateDetailsRead) ==
  updateDetailsRead.exists /\ updateDetailsRead.appVersion = appVersion

\* The versions the native updater can announce next: the first one found
\* is called "2.0.0", a later check finds the same update or a newer one.
Announceable ==
  CASE nativeInfo = "" -> {"2.0.0"}
    [] nativeInfo = "2.0.0" -> TargetVersions
    [] OTHER -> {nativeInfo}

\* autoUpdater.on('update-available'): up to await getAutoUpdateDetails().
onUpdateAvailable(v) ==
  /\ listening
  /\ nativeChecking
  /\ v \in Announceable
  /\ nativeChecking' = FALSE
  /\ nativeInfo' = v
  /\ cycles' = Append(cycles, NewCycle(v))
  /\ UNCHANGED <<config, builder, hostCalls, phase, hostURL, updaterWindow, bootPromise, timerArmed,
                 ticks, checkCalls, lookups, nativeChecks, nativeDownloads,
                 updateDetails, holder, helpers, autoUpdateInfo, applyTimers,
                 notifications, apply, errs>>

\* What update-details.json holds when the handler reads it: a record of
\* the running version or not.  Kept in the cycle's recMatch.
RecordMatches ==
  updateDetails.exists /\ updateDetails.appVersion = appVersion

\* The handler after await getAutoUpdateDetails(), with the synchronous
\* start of doSmartDownload.
readRecordDone(c) ==
  /\ listening
  /\ cycles[c].pc = "readRecord"
  /\ LET cy == [cycles[c] EXCEPT !.recMatch = RecordMatches] IN
       Commit(c, IF lastAttemptFailed(getAutoUpdateDetails)
                   THEN Full(cy, "lastAttempt")
                   ELSE doSmartDownload(cy))
  /\ UNCHANGED <<config, builder, hostCalls, nativeInfo, phase, hostURL, timerArmed, ticks, checkCalls, lookups,
                 nativeChecking, nativeChecks, updateDetails, holder, helpers,
                 apply>>

\* The latestVersion of the manifest published at hostURL.  The github
\* feed URL names the tag of the release that was the latest when it was
\* resolved (getGithubFeedURL), which is the first release the native updater
\* finds, "2.0.0"; a generic feed holds the manifest of the release published
\* last.
ManifestLatestVersion ==
  IF provider = "github" THEN "2.0.0" ELSE nativeInfo

\* doSmartDownload after await fetch / await response.json().  answer is
\* "throw", "status" (not 200), "body" (not JSON), "null" (a falsy JSON
\* value) or "json" with the manifest m; the host answers 200 only at the
\* URL where the manifest is published.
fetchDone(c, answer, m) ==
  /\ listening
  /\ cycles[c].pc = "fetching"
  /\ answer = "json" => getDeltaJSONUrl = PublishedManifestURL
  /\ Commit(c, CASE answer = "throw" -> Full(cycles[c], "fetchThrow")
                 [] answer = "status" -> Full(cycles[c], "badStatus")
                 [] answer = "body" -> Full(cycles[c], "badBody")
                 [] answer = "null" -> Full(cycles[c], "nullBody")
                 [] OTHER -> WithManifest([cycles[c] EXCEPT
                                             !.latest = ManifestLatestVersion],
                                          m))
  /\ UNCHANGED <<config, builder, hostCalls, nativeInfo, phase, hostURL, timerArmed, ticks, checkCalls, lookups,
                 nativeChecking, nativeChecks, updateDetails, holder, helpers,
                 apply>>

\* darwin: the awaits of the helper block (lines 472-475), one per step:
\* downloadFile(mac-updater), downloadFile(hpatchz), chmod, chmod.  A
\* download leaves the file's mode as it was; a failure of any step is caught
\* and falls back.
helperStep(c, ok) ==
  /\ listening
  /\ cycles[c].pc \in {"helper1", "helper2", "chmod1", "chmod2"}
  /\ LET cy == cycles[c]
         written(st) == IF st = "absent" THEN "file" ELSE st
     IN
       /\ helpers' =
            IF ~ok THEN helpers
            ELSE CASE cy.pc = "helper1" ->
                        [helpers EXCEPT !.macUpdater = written(@)]
                   [] cy.pc = "helper2" ->
                        [helpers EXCEPT !.hpatchz = written(@)]
                   [] cy.pc = "chmod1" -> [helpers EXCEPT !.macUpdater = "exec"]
                   [] OTHER -> [helpers EXCEPT !.hpatchz = "exec"]
       /\ Commit(c,
            IF ~ok THEN Full(cy, "helperFail")
            ELSE CASE cy.pc = "helper1" ->
                        Wait([cy EXCEPT !.pc = "helper2", !.helperDls = @ + 1])
                   [] cy.pc = "helper2" -> Wait([cy EXCEPT !.pc = "chmod1"])
                   [] cy.pc = "chmod1" -> Wait([cy EXCEPT !.pc = "chmod2"])
                   [] OTHER -> PatchStep(cy))
  /\ UNCHANGED <<config, builder, hostCalls, nativeInfo, phase, hostURL, timerArmed, ticks, checkCalls, lookups,
                 nativeChecking, nativeChecks, updateDetails, holder, apply>>

\* After await fs.ensureDir(deltaHolderPath): downloadFile(deltaURL,
\* deltaPath, onProgressCb) issues the request.
ensureDirDone(c) ==
  /\ listening
  /\ cycles[c].pc = "ensureDir"
  /\ cycles' = [cycles EXCEPT ![c] = [@ EXCEPT !.pc = "requesting",
                                               !.patchDls = @ + 1]]
  /\ UNCHANGED <<config, builder, hostCalls, nativeInfo, phase, hostURL, updaterWindow, bootPromise, timerArmed,
                 ticks, checkCalls, lookups, nativeChecking, nativeChecks,
                 nativeDownloads, updateDetails, holder, helpers, autoUpdateInfo,
                 applyTimers, notifications, apply, errs>>

RejectedEscapes(cy) ==
  Escape(cy, "dlReject")

\* downloadFile rejects.  The promise of a redirected download is chained
\* with .then only: its rejection never settles the outer promise, and the
\* cycle awaiting it never resumes.
Rejected(cy) ==
  IF cy.redirects > 0
    THEN Wait([Settled(cy) EXCEPT !.pc = "hung", !.fail = "dlHung"])
    ELSE Full(cy, "dlReject")

\* Another cycle's write stream opens (truncates) or unlinks the file this
\* cycle is streaming into.
Disturb(c, how) ==
  [i \in DOMAIN cycles |->
     IF i # c /\ cycles[i].pc = "streaming" /\ cycles[i].disturbed # "orphan"
       THEN [cycles[i] EXCEPT !.disturbed = how]
       ELSE cycles[i]]

\* downloadFile: the response callback of http.get.  answer is "200",
\* "redirect" (301 / 302), "status" (any other) or "error" (request error).
downloadResponse(c, answer) ==
  /\ listening
  /\ cycles[c].pc = "requesting"
  /\ answer = "200" => getDeltaURL(cycles[c].entry.path) = PublishedPatchURL
  /\ answer = "redirect" => cycles[c].redirects < MaxRedirects
  /\ LET cy == cycles[c] IN
       CASE answer = "200" ->
              /\ holder' = Partial
              /\ cycles' = [Disturb(c, "clobbered") EXCEPT
                              ![c] = [cy EXCEPT !.pc = "streaming",
                                                !.disturbed = "no"]]
              /\ UNCHANGED <<nativeDownloads, autoUpdateInfo, bootPromise,
                             updaterWindow, applyTimers, notifications, errs>>
         [] answer = "redirect" ->
              /\ cycles' = [cycles EXCEPT ![c] = [cy EXCEPT !.redirects = @ + 1]]
              /\ UNCHANGED <<holder, nativeDownloads, autoUpdateInfo, bootPromise,
                             updaterWindow, applyTimers, notifications, errs>>
         [] OTHER ->
              /\ Commit(c, Rejected(cy))
              /\ UNCHANGED holder
  /\ UNCHANGED <<config, builder, hostCalls, nativeInfo, phase, hostURL, timerArmed, ticks, checkCalls, lookups,
                 nativeChecking, nativeChecks, updateDetails, helpers, apply>>

\* downloadFile: response.on('data'), which calls onProgressCb.
downloadChunk(c) ==
  /\ listening
  /\ cycles[c].pc = "streaming"
  /\ cycles[c].chunks < MaxChunks
  /\ holder' = (IF cycles[c].disturbed = "orphan" THEN holder ELSE Partial)
  /\ cycles' = [cycles EXCEPT ![c] = [@ EXCEPT !.chunks = @ + 1]]
  /\ UNCHANGED <<config, builder, hostCalls, nativeInfo, phase, hostURL, updaterWindow, bootPromise, timerArmed,
                 ticks, checkCalls, lookups, nativeChecking, nativeChecks,
                 nativeDownloads, updateDetails, helpers, autoUpdateInfo,
                 applyTimers, notifications, apply, errs>>

\* What the patch path holds when a stream that carried `content` finishes:
\* the content; what was there if the file was unlinked under the stream;
\* the content or a mix if another stream wrote the same file meanwhile.
Finished(cy, content) ==
  CASE cy.disturbed = "orphan" -> {holder}
    [] cy.disturbed = "clobbered" -> {content, Partial}
    [] OTHER -> {content}

VerifyRetry(cy, file) ==
  IF isSHACorrect(file, cy.entry.sha256)
    THEN deltaDownloaded(cy, HolderPath(cy.entry.path))
    ELSE Wait([Settled(cy) EXCEPT !.pc = "ensureDir", !.fail = "shaMismatch"])

\* doSmartDownload after await downloadFile (lines 508-514).
Verify(cy, file) ==
  IF isSHACorrect(file, cy.entry.sha256)
    THEN deltaDownloaded(Checked(cy, "patch"), HolderPath(cy.entry.path))
    ELSE Full(cy, "shaMismatch")

ResolvedUnlessRedirected(cy, out) ==
  IF cy.redirects > 0
    THEN Wait([Settled(cy) EXCEPT !.pc = "hung"])
    ELSE out

\* downloadFile: resolve() of the write stream's 'finish', reached through
\* .then(() => resolve()) of every redirect before it.  `out` is how the
\* awaiting doSmartDownload goes on; the cycle keeps the number of redirects
\* its download followed.
Resolved(cy, out) ==
  [out EXCEPT !.cy.redirects = cy.redirects]

\* downloadFile: the write stream's 'finish' resolves the promise and
\* doSmartDownload verifies the file.
downloadEnd(c, content, file) ==
  /\ listening
  /\ cycles[c].pc = "streaming"
  /\ file \in Finished(cycles[c], content)
  /\ holder' = file
  /\ Commit(c, Resolved(cycles[c], Verify(cycles[c], file)))
  /\ UNCHANGED <<config, builder, hostCalls, nativeInfo, phase, hostURL, timerArmed, ticks, checkCalls, lookups,
                 nativeChecking, nativeChecks, updateDetails, helpers, apply>>

\* downloadFile: response 'error' (file.destroy, fs.unlink, reject) or the
\* write stream's 'error' (request.destroy, reject).
downloadStreamError(c, which) ==
  /\ listening
  /\ cycles[c].pc = "streaming"
  /\ holder' = (IF which = "response" /\ cycles[c].disturbed # "orphan"
                  THEN Absent ELSE holder)
  /\ LET out == Rejected(cycles[c])
         others == IF which = "response" /\ cycles[c].disturbed # "orphan"
                     THEN Disturb(c, "orphan") ELSE cycles
     IN /\ cycles' = [others EXCEPT ![c] = out.cy]
        /\ nativeDownloads' = nativeDownloads + (IF out.full THEN 1 ELSE 0)
  /\ UNCHANGED <<config, builder, hostCalls, nativeInfo, phase, hostURL, updaterWindow, bootPromise, timerArmed,
                 ticks, checkCalls, lookups, nativeChecking, nativeChecks,
                 updateDetails, helpers, autoUpdateInfo, applyTimers,
                 notifications, apply, errs>>

----------------------------------------------------------------------------
(* The other handlers of the native updater's events *)

\* autoUpdater.on('update-not-available')
onUpdateNotAvailable ==
  /\ listening
  /\ nativeChecking
  /\ nativeChecking' = FALSE
  /\ Settle("resolved")
  /\ UNCHANGED <<config, builder, hostCalls, nativeInfo, phase, hostURL, timerArmed, ticks, checkCalls, lookups,
                 nativeChecks, nativeDownloads, cycles, updateDetails, holder,
                 helpers, autoUpdateInfo, applyTimers, notifications, apply, errs>>

\* autoUpdater.on('error'): raised by a failed check or a failed full
\* download.
onError(from) ==
  /\ listening
  /\ \/ from = "check" /\ nativeChecking
        /\ nativeChecking' = FALSE /\ UNCHANGED nativeDownloads
     \/ from = "download" /\ nativeDownloads > 0
        /\ nativeDownloads' = nativeDownloads - 1 /\ UNCHANGED nativeChecking
  /\ Surface("native", TRUE)
  /\ Settle("rejected")
  /\ UNCHANGED <<config, builder, hostCalls, nativeInfo, phase, hostURL, timerArmed, ticks, checkCalls, lookups,
                 nativeChecks, cycles, updateDetails, holder, helpers,
                 autoUpdateInfo, applyTimers, notifications, apply>>

\* autoUpdater.on('update-downloaded') for the native updater's own event:
\* the full update it announced last is downloaded.
onUpdateDownloaded ==
  /\ listening
  /\ nativeDownloads > 0
  /\ nativeDownloads' = nativeDownloads - 1
  /\ handleUpdateDownloaded([set |-> TRUE, delta |-> FALSE, deltaPath |-> <<>>,
                             version |-> nativeInfo])
  /\ UNCHANGED <<config, builder, hostCalls, nativeInfo, phase, hostURL, timerArmed, ticks, checkCalls, lookups,
                 nativeChecking, nativeChecks, cycles, updateDetails, holder,
                 helpers, apply, errs>>

----------------------------------------------------------------------------
(* Applying a downloaded update *)

\* Click on the notification of showUpdateNotification: quitAndInstall().
notificationClick ==
  /\ listening
  /\ notifications > 0
  /\ notifications' = notifications - 1
  /\ applyTimers' = applyTimers + (IF autoUpdateInfo.set THEN 1 ELSE 0)
  /\ UNCHANGED <<config, builder, hostCalls, nativeInfo, phase, hostURL, updaterWindow, bootPromise, timerArmed,
                 ticks, checkCalls, lookups, nativeChecking, nativeChecks,
                 nativeDownloads, cycles, updateDetails, holder, helpers,
                 autoUpdateInfo, apply, errs>>

NoUpdateNever(info) ==
  FALSE

\* if (!this.autoUpdateInfo)
NoUpdate(info) ==
  ~info.set

\* quitAndInstall() called by the host application: it returns at once
\* when no update is recorded, and schedules the apply otherwise.
quitAndInstall ==
  /\ phase # "exited"
  /\ hostCalls < MaxHostCalls
  /\ hostCalls' = hostCalls + 1
  /\ applyTimers' = applyTimers + (IF NoUpdate(autoUpdateInfo) THEN 0 ELSE 1)
  /\ UNCHANGED <<config, builder, nativeInfo, phase, hostURL, updaterWindow,
                 bootPromise, timerArmed, ticks, checkCalls, lookups,
                 nativeChecking, nativeChecks, nativeDownloads, cycles,
                 updateDetails, holder, helpers, autoUpdateInfo, notifications,
                 apply, errs>>

\* The command of a hand-off that has not happened.
NoCmd == [exe |-> <<>>, apppath |-> "", restart |-> ""]

\* stripTrailingSlash(path.dirname(app.getPath('exe')))
appPath == "install-dir"

\* The setTimeout callback of quitAndInstall: applyDeltaUpdate or
\* applyUpdate up to await this.writeAutoUpdateDetails(...).
runApplyTimer ==
  /\ listening
  /\ applyTimers > 0
  /\ applyTimers' = applyTimers - 1
  /\ apply' = Append(apply, [pc |-> "writing", delta |-> autoUpdateInfo.delta,
                             deltaPath |-> autoUpdateInfo.deltaPath,
                             version |-> autoUpdateInfo.version,
                             log |-> <<>>, rec |-> NoRecord, cmd |-> NoCmd])
  /\ UNCHANGED <<config, builder, hostCalls, nativeInfo, phase, hostURL, updaterWindow, bootPromise, timerArmed,
                 ticks, checkCalls, lookups, nativeChecking, nativeChecks,
                 nativeDownloads, cycles, updateDetails, holder, helpers,
                 autoUpdateInfo, notifications, errs>>

Remove(seq, i) == SubSeq(seq, 1, i - 1) \o SubSeq(seq, i + 1, Len(seq))

writeAutoUpdateDetailsAsFull(isDelta, attemptedVersion, ok) ==
  IF platform = "darwin" \/ ~pathsSet \/ ~ok
    THEN updateDetails
    ELSE [exists |-> TRUE, isDelta |-> FALSE,
          attemptedVersion |-> attemptedVersion, appVersion |-> appVersion]

writeAutoUpdateDetailsAnywhere(isDelta, attemptedVersion, ok) ==
  IF ~pathsSet \/ ~ok
    THEN updateDetails
    ELSE [exists |-> TRUE, isDelta |-> isDelta,
          attemptedVersion |-> attemptedVersion, appVersion |-> appVersion]

\* writeAutoUpdateDetails({ isDelta, attemptedVersion }): nothing on darwin;
\* a failed fs.writeJSON is caught and leaves the file as it was.
writeAutoUpdateDetails(isDelta, attemptedVersion, ok) ==
  IF platform = "darwin" \/ ~pathsSet \/ ~ok
    THEN updateDetails
    ELSE [exists |-> TRUE, isDelta |-> isDelta,
          attemptedVersion |-> attemptedVersion, appVersion |-> appVersion]

\* How await writeAutoUpdateDetails(...) ended: it returned at once on
\* darwin, fs.writeJSON wrote the record, or its failure was caught and logged.
WriteOutcome(ok) ==
  IF platform = "darwin" THEN "recordSkipped"
  ELSE IF pathsSet /\ ok THEN "record"
  ELSE "recordFailed"

PatchInstallerCommandNoRestart(deltaPath) ==
  [exe |-> deltaPath, apppath |-> appPath, restart |-> "0"]

\* applyDeltaUpdate, win32: execSync(`${deltaPath} /APPPATH="${this.appPath}"
\* /RESTART="1"`)
PatchInstallerCommand(deltaPath) ==
  [exe |-> deltaPath, apppath |-> appPath, restart |-> "1"]

\* applyDeltaUpdate, darwin: execFile(this.macUpdaterPath, [getAppName(),
\* deltaPath, this.hpatchzPath])
HelperCommand(deltaPath) ==
  [exe |-> <<"mac-updater">>, apppath |-> "", restart |-> ""]

Stay ==
  UNCHANGED <<config, builder, hostCalls, nativeInfo, phase, hostURL, updaterWindow, bootPromise,
              timerArmed, ticks, checkCalls, lookups, nativeChecking,
              nativeChecks, nativeDownloads, cycles, holder, helpers,
              autoUpdateInfo, applyTimers, notifications, errs>>

\* The process ends: what it held in memory is gone, in-flight requests and
\* timers with it; the files stay.
Exit ==
  /\ phase' = "exited"
  /\ hostURL' = NoURL
  /\ updaterWindow' = FALSE
  /\ bootPromise' = "none"
  /\ timerArmed' = FALSE
  /\ lookups' = 0
  /\ nativeChecking' = FALSE
  /\ nativeDownloads' = 0
  /\ nativeInfo' = ""
  /\ cycles' = <<>>
  /\ autoUpdateInfo' = NoInfo
  /\ applyTimers' = 0
  /\ notifications' = 0
  /\ UNCHANGED <<config, builder, hostCalls, ticks, checkCalls, nativeChecks, holder, helpers, errs>>

QuitHandlerBound(info) ==
  IF ~info.set THEN <<>>
  ELSE IF info.delta THEN <<"handoff">>
  ELSE <<"record", "quiesce", "handoff">>

\* What the listener of app 'quit' does with the recorded update.  It is
\* registered as app.on('quit', this.onQuit), unbound: inside it `this` is
\* the app, whose logger is undefined, so its first statement throws and the
\* async handler rejects before it reads autoUpdateInfo.
QuitHandler(info) ==
  <<"handlerThrew">>

\* The 'quit' event of a shutdown: the handler runs when it is still
\* registered (applyDeltaUpdate removes it before app.quit()).
Shutdown(registered, info) ==
  IF registered THEN QuitHandler(info) ELSE <<>>

\* applyDeltaUpdate / applyUpdate after await writeAutoUpdateDetails:
\* ensureSafeQuitAndInstall and the hand-off.  handoff is whether execSync /
\* execFile returned; when it throws, the catch block itself throws
\* (this.log is undefined) and app.quit() is not reached.  The log of the
\* entry lists what the sequence did, in the order of the code.
applyWritten(i, written, handoff) ==
  /\ listening
  /\ i \in DOMAIN apply
  /\ apply[i].pc = "writing"
  /\ LET rec == writeAutoUpdateDetails(apply[i].delta, apply[i].version, written)
         e == [apply[i] EXCEPT !.log = <<WriteOutcome(written), "quiesce">>,
                               !.rec = rec]
     IN
       /\ updateDetails' = rec
       /\ IF e.delta /\ ~handoff
            THEN /\ apply' = [apply EXCEPT ![i] =
                       [e EXCEPT !.pc = "failed",
                                 !.log = @ \o <<"handoffThrew", "logThrew">>]]
                 /\ Stay
            ELSE IF e.delta
              THEN /\ apply' = <<[e EXCEPT
                          !.pc = "handedOff",
                          !.log = @ \o <<"handoff", "quit">>
                                    \o Shutdown(FALSE, autoUpdateInfo),
                          !.cmd = IF platform = "darwin"
                                    THEN HelperCommand(e.deltaPath)
                                    ELSE PatchInstallerCommand(e.deltaPath)]>>
                   /\ Exit
            ELSE IF platform = "darwin"
              THEN /\ handoff
                   /\ apply' = <<[e EXCEPT !.pc = "handedOff",
                                           !.log = @ \o <<"handoff">>
                                             \o Shutdown(TRUE, autoUpdateInfo)]>>
                   /\ Exit
              ELSE /\ handoff
                   /\ apply' = [apply EXCEPT ![i] = [e EXCEPT !.pc = "installTimer"]]
                   /\ Stay

\* applyUpdate: setTimeout(() => autoUpdater.quitAndInstall(true,
\* forceRunAfter), 100); the native updater quits the application.
nativeQuitAndInstall(i) ==
  /\ listening
  /\ i \in DOMAIN apply
  /\ apply[i].pc = "installTimer"
  /\ apply' = <<[apply[i] EXCEPT !.pc = "handedOff",
                                  !.log = @ \o <<"handoff">>
                                    \o Shutdown(TRUE, autoUpdateInfo)]>>
  /\ Exit
  /\ UNCHANGED updateDetails

\* app 'quit', with or without a recorded update.  The listener is registered as
\* app.on('quit', this.onQuit), unbound: inside it `this` is the app, whose
\* logger is undefined, so its first statement throws and the async handler
\* rejects before it reads autoUpdateInfo.  The process ends.
onQuit ==
  /\ listening
  /\ apply' = IF autoUpdateInfo.set
                THEN <<[pc |-> "quit", delta |-> autoUpdateInfo.delta,
                        deltaPath |-> autoUpdateInfo.deltaPath,
                        version |-> autoUpdateInfo.version,
                        log |-> QuitHandler(autoUpdateInfo), rec |-> NoRecord,
                        cmd |-> NoCmd]>>
                ELSE <<>>
  /\ Exit
  /\ UNCHANGED updateDetails

----------------------------------------------------------------------------
(* Specification of the client of index.js *)

Next ==
  \/ \E splashScreen \in BOOLEAN, r \in {NoURL, FeedURL, FeedURLNoSlash} :
       boot(splashScreen, r)
  \/ devTimeout
  \/ tick
  \/ \E r \in {NoURL, FeedURL} : githubLookupDone(r)
  \/ \E v \in TargetVersions : onUpdateAvailable(v)
  \/ onUpdateNotAvailable
  \/ \E from \in {"check", "download"} : onError(from)
  \/ onUpdateDownloaded
  \/ \E c \in DOMAIN cycles : readRecordDone(c)
  \/ \E c \in DOMAIN cycles, answer \in {"throw", "status", "body", "null"} :
       fetchDone(c, answer, <<>>)
  \/ \E c \in DOMAIN cycles, m \in Manifests : fetchDone(c, "json", m)
  \/ \E c \in DOMAIN cycles, ok \in BOOLEAN : helperStep(c, ok)
  \/ \E c \in DOMAIN cycles : ensureDirDone(c)
  \/ \E c \in DOMAIN cycles, answer \in {"200", "redirect", "status", "error"} :
       downloadResponse(c, answer)
  \/ \E c \in DOMAIN cycles : downloadChunk(c)
  \/ \E c \in DOMAIN cycles, content \in Contents, file \in FileStates :
       downloadEnd(c, content, file)
  \/ \E c \in DOMAIN cycles, which \in {"response", "file"} :
       downloadStreamError(c, which)
  \/ notificationClick
  \/ runApplyTimer
  \/ \E i \in DOMAIN apply, written \in BOOLEAN, handoff \in BOOLEAN :
       applyWritten(i, written, handoff)
  \/ \E i \in DOMAIN apply : nativeQuitAndInstall(i)
  \/ onQuit

Spec == Init /\ [][Next]_vars

\* The client with a host application that calls quitAndInstall() itself.
NextHost ==
  \/ Next
  \/ quitAndInstall

\* A fresh installation: no attempt record and no patch file left by an
\* earlier run.
InitHost ==
  /\ Init
  /\ updateDetails = NoRecord
  /\ holder = Absent

SpecHost == InitHost /\ [][NextHost]_vars

----------------------------------------------------------------------------
(* The TypeScript variant of the client (src/unnamed/part_003).  Its         *)
(* checkForUpdates, pollForUpdates, 'error' handler and 'update-available'   *)
(* handler have the code of index.js, and the actions tick,                  *)
(* githubLookupDone, onUpdateAvailable and onError stand for them here too.  *)

\* info.path of the native updater's UpdateInfo: a file name or a URL.
InfoPaths ==
  {[absolute |-> FALSE, segs |-> <<"App-full.exe">>],
   [absolute |-> TRUE, segs |-> <<"feed", "App-full.exe">>]}

InitTS ==
  /\ platform \in Platforms
  /\ isPackaged = TRUE
  /\ provider \in Providers
  /\ appVersion \in AppVersions
  /\ phase = "constructed"
  /\ hostURL \in {NoURL, FeedURL}
  /\ updaterWindow = FALSE
  /\ bootPromise = "none"
  /\ timerArmed = FALSE
  /\ ticks = 0
  /\ checkCalls = 0
  /\ lookups = 0
  /\ nativeChecking = FALSE
  /\ nativeChecks = 0
  /\ nativeDownloads = 0
  /\ nativeInfo = ""
  /\ cycles = <<>>
  /\ updateDetails \in PastRecords(platform, appVersion)
  /\ holder = Absent
  /\ helpers = NoHelpers
  /\ autoUpdateInfo = NoInfo
  /\ applyTimers = 0
  /\ notifications = 0
  /\ apply = <<>>
  /\ errs = NoErrs
  /\ hostCalls = 0
  /\ NoBuild

\* start(): createSplashWindow and attachListeners of a packaged app.
start ==
  /\ phase = "constructed"
  /\ phase' = "running"
  /\ updaterWindow' = TRUE
  /\ bootPromise' = "pending"
  /\ timerArmed' = TRUE
  /\ checkForUpdates(hostURL)
  /\ UNCHANGED <<config, builder, hostCalls, nativeInfo, hostURL, ticks, nativeDownloads, cycles,
                 updateDetails, holder, helpers, autoUpdateInfo, applyTimers,
                 notifications, apply, errs>>

\* doSmartDownload(info) up to the request of downloadFile.  The arguments
\* of newUrlFromBase are the host URL as the path and info.path as the base:
\* new URL throws unless info.path is an absolute URL.
doSmartDownloadTS(cy, infoPath) ==
  IF ~infoPath.absolute
    THEN Escape(cy, "badBase")
    ELSE Wait([cy EXCEPT !.pc = "requesting", !.patchDls = @ + 1])

\* The 'update-available' handler after await getAutoUpdateDetails(), with
\* doSmartDownload(info).
readRecordDoneTS(c, infoPath) ==
  /\ listening
  /\ cycles[c].pc = "readRecord"
  /\ LET cy == [cycles[c] EXCEPT !.recMatch = RecordMatches] IN
       Commit(c, IF lastAttemptFailed(getAutoUpdateDetails)
                   THEN Full(cy, "lastAttempt")
                   ELSE doSmartDownloadTS(cy, infoPath))
  /\ UNCHANGED <<config, builder, hostCalls, nativeInfo, phase, hostURL, timerArmed, ticks,
                 checkCalls, lookups, nativeChecking, nativeChecks,
                 updateDetails, holder, helpers, apply>>

\* downloadFile: the response callback.  Nobody handles the rejection of the
\* promise; fs.createWriteStream throws on the unset holder path.
downloadResponseTS(c, answer) ==
  /\ listening
  /\ cycles[c].pc = "requesting"
  /\ answer = "redirect" => cycles[c].redirects < MaxRedirects
  /\ cycles' = [cycles EXCEPT ![c] =
       CASE answer = "200" ->
              IF pathsSet THEN [@ EXCEPT !.pc = "streaming"]
                          ELSE Escape(@, "noPath").cy
         [] answer = "redirect" -> [@ EXCEPT !.redirects = @ + 1]
         [] OTHER -> Escape(@, "dlReject").cy]
  /\ UNCHANGED <<config, builder, hostCalls, nativeInfo, phase, hostURL, updaterWindow, bootPromise,
                 timerArmed, ticks, checkCalls, lookups, nativeChecking,
                 nativeChecks, nativeDownloads, updateDetails, holder, helpers,
                 autoUpdateInfo, applyTimers, notifications, apply, errs>>

\* downloadFile: response.on('data') calls the callback doSmartDownload
\* passed, which calls autoUpdater.downloadUpdate() unless on darwin.
downloadChunkTS(c) ==
  /\ listening
  /\ cycles[c].pc = "streaming"
  /\ cycles[c].chunks < MaxChunksTS
  /\ LET full == platform # "darwin" IN
       /\ cycles' = [cycles EXCEPT ![c] =
            [@ EXCEPT !.chunks = @ + 1,
                      !.fullReqs = @ + (IF full THEN 1 ELSE 0)]]
       /\ nativeDownloads' = nativeDownloads + (IF full THEN 1 ELSE 0)
  /\ UNCHANGED <<config, builder, hostCalls, nativeInfo, phase, hostURL, updaterWindow, bootPromise,
                 timerArmed, ticks, checkCalls, lookups, nativeChecking,
                 nativeChecks, updateDetails, holder, helpers, autoUpdateInfo,
                 applyTimers, notifications, apply, errs>>

\* downloadFile: 'finish' resolves (ok) or a stream error rejects the promise
\* doSmartDownload dropped.
downloadEndTS(c, ok) ==
  /\ listening
  /\ cycles[c].pc = "streaming"
  /\ cycles' = [cycles EXCEPT ![c] =
       IF ok THEN [Settled(@) EXCEPT !.pc = "done"]
             ELSE Escape(@, "dlReject").cy]
  /\ UNCHANGED <<config, builder, hostCalls, nativeInfo, phase, hostURL, updaterWindow, bootPromise,
                 timerArmed, ticks, checkCalls, lookups, nativeChecking,
                 nativeChecks, nativeDownloads, updateDetails, holder, helpers,
                 autoUpdateInfo, applyTimers, notifications, apply, errs>>

\* The native updater found no update: no handler is attached.
updateNotAvailableTS ==
  /\ listening
  /\ nativeChecking
  /\ nativeChecking' = FALSE
  /\ UNCHANGED <<config, builder, hostCalls, nativeInfo, phase, hostURL, updaterWindow, bootPromise,
                 timerArmed, ticks, checkCalls, lookups, nativeChecks,
                 nativeDownloads, cycles, updateDetails, holder, helpers,
                 autoUpdateInfo, applyTimers, notifications, apply, errs>>

\* autoUpdater.on('update-downloaded'): emit, dispatch, show a notification.
onUpdateDownloadedTS ==
  /\ listening
  /\ nativeDownloads > 0
  /\ nativeDownloads' = nativeDownloads - 1
  /\ notifications' = notifications + 1
  /\ UNCHANGED <<config, builder, hostCalls, nativeInfo, phase, hostURL, updaterWindow, bootPromise,
                 timerArmed, ticks, checkCalls, lookups, nativeChecking,
                 nativeChecks, cycles, updateDetails, holder, helpers,
                 autoUpdateInfo, applyTimers, apply, errs>>

NextTS ==
  \/ start
  \/ tick
  \/ \E r \in {NoURL, FeedURL} : githubLookupDone(r)
  \/ \E v \in TargetVersions : onUpdateAvailable(v)
  \/ updateNotAvailableTS
  \/ \E from \in {"check", "download"} : onError(from)
  \/ onUpdateDownloadedTS
  \/ \E c \in DOMAIN cycles, infoPath \in InfoPaths : readRecordDoneTS(c, infoPath)
  \/ \E c \in DOMAIN cycles, answer \in {"200", "redirect", "status", "error"} :
       downloadResponseTS(c, answer)
  \/ \E c \in DOMAIN cycles : downloadChunkTS(c)
  \/ \E c \in DOMAIN cycles, ok \in BOOLEAN : downloadEndTS(c, ok)

SpecTS == InitTS /\ [][NextTS]_vars

----------------------------------------------------------------------------
(* The build-time pipeline: createAllDeltas (create-all-deltas.ts).  One     *)
(* action is the stretch of the async function between two awaits.  The     *)
(* release index, the artifact downloads, 7zip, hdiffz, makensis and the    *)
(* sign callback are the environment; MaxFaults bounds how often they fail. *)

\* What the steps of createAllDeltas leave alone.
outside == <<client, buildPlatform, releaseIndex, deltaBuilder, resolver>>

\* The build output of the release being built (latestReleaseFilePath).
LatestArtifact(p) == <<"dist", LatestVersion, Ext(p)>>

\* hdiffz -f -c-lzma2 oldDir newDir patchOut: the patch it writes.
hdiffz(oldDir, newDir) == [old |-> oldDir, new |-> newDir]

\* The extraction loop's test: the directory of the version holds the
\* platform's executable (<processName>.exe or <processName>.app).
Extracted(c, version) ==
  /\ version \in DOMAIN c.extracted
  /\ c.extracted[version].exe
  /\ c.extracted[version].platform = buildPlatform

\* An environment failure of the given kind is met.
Fault(b, kind) ==
  [b EXCEPT !.faulty = TRUE, !.kinds = @ \cup {kind}]

\* A stage of the k-th prior release takes place; signed tells, for a
\* checksum, whether the file read had been signed.
Stage(b, stage, k, signed) ==
  [b EXCEPT !.log = Append(@, [stage |-> stage, k |-> k, signed |-> signed])]

AwaitedNone(inflight) ==
  inflight

\* await: the function goes on only when the operation it awaits has settled.
Awaited(inflight) ==
  {}

\* The asynchronous operation the call starts before its next await.
Starting(b, c) ==
  CASE b.pc = "index" -> {[kind |-> "index", k |-> 0]}
    [] b.pc = "download" ->
         IF existsSync(c.data, b.previousReleases[b.i].fileName)
           THEN {} ELSE {[kind |-> "download", k |-> b.i]}
    [] b.pc = "extract" ->
         IF Extracted(c, b.previousReleases[b.i].version)
           THEN {} ELSE {[kind |-> "extract", k |-> b.i]}
    [] b.pc = "extractLatest" -> {[kind |-> "extract", k |-> 0]}
    [] b.pc = "build" -> {[kind |-> "makensis", k |-> b.i]}
    [] OTHER -> {}

\* The call goes on to its next await.
Continue(b, c, o) ==
  /\ build' = [b EXCEPT !.inflight = Awaited(build.inflight) \cup Starting(b, c)]
  /\ cache' = c
  /\ output' = o
  /\ UNCHANGED history

\* The call settles: it returns null ("null"), returns the files of the
\* output directory ("files") or rejects ("threw").
Finish(result, b, c, o) ==
  /\ build' = Idle
  /\ cache' = c
  /\ output' = o
  /\ history' = Append(history,
       [result |-> result,
        platform |-> buildPlatform,
        downloads |-> b.downloads,
        extractions |-> b.extractions,
        faulty |-> b.faulty,
        kinds |-> b.kinds,
        diffFailed |-> b.diffFailed,
        produced |-> b.produced,
        versions |-> {b.previousReleases[k].version :
                        k \in 1..Len(b.previousReleases)},
        log |-> b.log,
        manifest |-> o.manifest,
        files |-> IF result = "files" THEN DOMAIN o.files ELSE {}])

\* The next iteration of a for-of loop over previousReleases, or the
\* statement after the loop.
NextIn(b, after) ==
  IF b.i < Len(b.previousReleases)
    THEN [b EXCEPT !.i = @ + 1]
    ELSE [b EXCEPT !.pc = after, !.i = 1]

RECURSIVE Checksums(_, _, _)
\* The checksum loop (lines 178-186, 209-217) from its k-th iteration on.
Checksums(b, files, k) ==
  IF k > Len(b.previousReleases) THEN b
  ELSE LET v == b.previousReleases[k].version
           name == publishedFileName(v)
           b1 == Stage(b, "checksum", k, files[name].signed)
           b2 == [b1 EXCEPT !.deltaJSON[v].sha256 =
                              <<computeSHA256OfFile(files, name)>>]
       IN Checksums(Stage(b2, "record", k, FALSE), files, k + 1)

\* The two checksum loops and writeFileSync of the manifest (lines 178-189,
\* 209-220); computeSHA256 throws on a missing file.
WriteManifest(b, c, o) ==
  LET prev == b.previousReleases
  IN IF \A k \in 1..Len(prev) :
          Readable(o.files, publishedFileName(prev[k].version))
       THEN LET done == Checksums(b, o.files, 1)
            IN Finish("files", done, c,
                 [o EXCEPT !.manifest =
                    <<[latestVersion |-> LatestVersion,
                       versions |-> done.deltaJSON]>>])
       ELSE Finish("threw", b, c, o)

NothingFoundBelowTwo(allReleases) ==
  Len(allReleases) < 2

\* !allReleases.length
NothingFound(allReleases) ==
  Len(allReleases) = 0

signLater(files, name) ==
  files

\* sign(installerOutputPath): the callback has signed the file when it
\* returns.
sign(files, name) ==
  IF Readable(files, name)
    THEN Put(files, name, [files[name] EXCEPT !.signed = TRUE])
    ELSE files

InitBuild ==
  /\ platform = "win32"
  /\ isPackaged = FALSE
  /\ provider = "generic"
  /\ appVersion = "1.1.0"
  /\ phase = "constructed"
  /\ hostURL = NoURL
  /\ updaterWindow = FALSE
  /\ bootPromise = "none"
  /\ timerArmed = FALSE
  /\ ticks = 0
  /\ checkCalls = 0
  /\ lookups = 0
  /\ nativeChecking = FALSE
  /\ nativeChecks = 0
  /\ nativeDownloads = 0
  /\ nativeInfo = ""
  /\ cycles = <<>>
  /\ updateDetails = NoRecord
  /\ holder = Absent
  /\ helpers = NoHelpers
  /\ autoUpdateInfo = NoInfo
  /\ applyTimers = 0
  /\ notifications = 0
  /\ apply = <<>>
  /\ errs = NoErrs
  /\ hostCalls = 0
  /\ buildPlatform \in {"win", "mac"}
  /\ releaseIndex \in Indexes
  /\ build = Idle
  /\ cache = EmptyCache
  /\ output = EmptyOutput
  /\ history = <<>>
  /\ faults = 0
  /\ deltaBuilder = NoDeltaBuilder
  /\ resolver = NoResolver

\* createAllDeltas is called: ensureDirSync of the cache directories, then
\* the call of getPreviousReleases.
createAllDeltas ==
  /\ build.pc = "idle"
  /\ deltaBuilder.pc = "none"
  /\ Len(history) < MaxRuns
  /\ Continue([Idle EXCEPT !.pc = "index"], cache, output)
  /\ UNCHANGED <<outside, faults>>

\* getPreviousReleases settles (it threw when ~ok); an empty list returns
\* null, otherwise the first ten releases are prepared and the first
\* download is started.
getPreviousReleasesDone(ok) ==
  /\ build.pc = "index"
  /\ ok \/ faults < MaxFaults
  /\ faults' = IF ok THEN faults ELSE faults + 1
  /\ LET allReleases == IF ok THEN ForPlatform(releaseIndex, buildPlatform)
                              ELSE <<>>
         b == IF ok THEN build ELSE Fault(build, "index")
     IN IF NothingFound(allReleases)
          THEN Finish("null", b, cache, output)
          ELSE Continue([b EXCEPT !.pc = "download", !.i = 1,
                                  !.previousReleases =
                                     preparePreviousReleases(slice(allReleases))],
                        cache, output)
  /\ UNCHANGED outside

\* downloadFileIfNotExists(url, filePath) settles: a file at filePath is a
\* cache hit; otherwise downloadFile has streamed into filePath and a failed
\* stream (~ok) leaves the file it had created and rejects.
downloadFileIfNotExistsDone(ok) ==
  /\ build.pc = "download"
  /\ LET r == build.previousReleases[build.i]
         hit == existsSync(cache.data, r.fileName)
         b0 == Stage(build, "download", build.i, FALSE)
         b1 == [b0 EXCEPT !.downloads = @ + 1]
         b == IF ok THEN b1 ELSE Fault(b1, "download")
         c == [cache EXCEPT !.data = Put(@, r.fileName,
                                         [whole |-> ok, url |-> r.url])]
     IN /\ hit => ok
        /\ ok \/ faults < MaxFaults
        /\ faults' = IF ok THEN faults ELSE faults + 1
        /\ IF hit THEN Continue(NextIn(b0, "extract"), cache, output)
           ELSE IF ok THEN Continue(NextIn(b, "extract"), c, output)
           ELSE Finish("threw", b, c, output)
  /\ UNCHANGED outside

\* One iteration of the extraction loop: the directory of the version is
\* skipped when it holds the executable; otherwise it is emptied and 7zip
\* extracts the cached file into it.  A truncated file cannot be extracted;
\* a failed extraction leaves a partial tree, with the executable (exe) or
\* without it.  After the last iteration the extraction of the latest
\* release is started.
extract7zipDone(ok, exe) ==
  /\ build.pc = "extract"
  /\ LET r == build.previousReleases[build.i]
         dir == r.version
         hit == Extracted(cache, dir)
         file == cache.data[r.fileName]
         good == ok /\ file.whole
         injected == ~hit /\ file.whole /\ ~ok
         b0 == Stage(build, "extract", build.i, FALSE)
         b1 == [b0 EXCEPT !.extractions = @ + 1]
         b == IF injected THEN Fault(b1, "extract") ELSE b1
         c == [cache EXCEPT !.extracted =
                 Put(@, dir, [exe |-> exe, whole |-> good,
                              from |-> {file.url},
                              platform |-> buildPlatform])]
     IN /\ hit => ok /\ exe
        /\ good => exe
        /\ ~file.whole => ~ok
        /\ injected => faults < MaxFaults
        /\ faults' = IF injected THEN faults + 1 ELSE faults
        /\ IF hit THEN Continue(NextIn(b0, "extractLatest"), cache, output)
           ELSE IF good THEN Continue(NextIn(b, "extractLatest"), c, output)
           ELSE Finish("threw", b, c, output)
  /\ UNCHANGED outside

\* extract7zip(latestReleaseFilePath, latestReleaseDir) settles; it is called
\* on every run, whatever the directory holds, and the directory is not
\* emptied first: what an earlier run extracted there stays.
extractLatestDone(ok) ==
  /\ build.pc = "extractLatest"
  /\ ok \/ faults < MaxFaults
  /\ faults' = IF ok THEN faults ELSE faults + 1
  /\ LET b1 == [build EXCEPT !.extractions = @ + 1]
         b == IF ok THEN b1 ELSE Fault(b1, "latest")
         before == IF LatestVersion \in DOMAIN cache.extracted
                     THEN cache.extracted[LatestVersion]
                     ELSE [exe |-> FALSE, whole |-> FALSE, from |-> {},
                           platform |-> buildPlatform]
         tree == IF ok
                   THEN [exe |-> TRUE, whole |-> TRUE,
                         from |-> before.from \cup {LatestArtifact(buildPlatform)},
                         platform |-> buildPlatform]
                   ELSE before
         c == [cache EXCEPT !.extracted = Put(@, LatestVersion, tree)]
     IN IF ok THEN Continue([b EXCEPT !.pc = "outputDir"], c, output)
              ELSE Finish("threw", b, c, output)
  /\ UNCHANGED outside

RECURSIVE Diffs(_, _, _)
\* The createDelta loop (lines 133-149) from its k-th iteration on.
Diffs(b, failed, k) ==
  IF k > Len(b.previousReleases) THEN b
  ELSE LET v == b.previousReleases[k].version
           b1 == Stage(b, "diff", k, FALSE)
       IN Diffs(IF v \in failed
                  THEN [Fault(b1, "diff") EXCEPT !.diffFailed = @ \cup {v}]
                  ELSE b1,
                failed, k + 1)

\* ensureDir and emptyDir of the output directory are done; the loop of
\* createDelta calls runs (spawnSync does not throw when hdiffz fails: the
\* patches of the versions in failed are not written, and createDelta
\* returns true), and the first installer build or the first move is
\* started.  On win the new tree is the whole directory of the latest
\* release, on mac the application bundle in it.
emptyDirDone(failed) ==
  /\ build.pc = "outputDir"
  /\ LET prev == build.previousReleases
         versions == {prev[k].version : k \in 1..Len(prev)}
         written == versions \ failed
         latest == cache.extracted[LatestVersion]
         newDir == IF buildPlatform = "win" THEN latest
                   ELSE [latest EXCEPT !.from = @ \cap {LatestArtifact("mac")}]
         deltas == [v \in DOMAIN cache.deltas \cup written |->
                      IF v \in written
                        THEN hdiffz(cache.extracted[v], newDir)
                        ELSE cache.deltas[v]]
         b == Diffs(build, failed, 1)
     IN /\ failed \subseteq versions
        /\ faults + Cardinality(failed) <= MaxFaults
        /\ faults' = faults + Cardinality(failed)
        /\ Continue([b EXCEPT !.pc = IF buildPlatform = "win"
                                       THEN "build" ELSE "move",
                              !.i = 1],
                    [cache EXCEPT !.deltas = deltas],
                    EmptyOutput)
  /\ UNCHANGED outside

\* win: deltaInstallerBuilder.build settles for one version (makensis wrote
\* the installer when ok and the patch exists; build never rejects), then
\* sign(installerOutputPath) runs (it threw when ~signed) and the version's
\* path is recorded.  After the last version come the checksums and the
\* manifest.
buildDone(ok, signed) ==
  /\ build.pc = "build"
  /\ LET v == build.previousReleases[build.i].version
         name == installerFileName(v)
         present == v \in DOMAIN cache.deltas
         created == ok /\ present
         failed == present /\ ~ok
         used == (IF failed THEN 1 ELSE 0) + (IF signed THEN 0 ELSE 1)
         files1 == IF created
                     THEN Put(output.files, name,
                              [delta |-> cache.deltas[v], signed |-> FALSE])
                     ELSE output.files
         b0 == Stage(build, "compile", build.i, FALSE)
         b1 == IF failed THEN Fault(b0, "makensis") ELSE b0
         b2 == Stage(b1, "sign", build.i, FALSE)
         b == [b2 EXCEPT !.deltaJSON = Put(@, v, [path |-> name,
                                                  sha256 |-> <<>>]),
                         !.produced = IF created /\ v \notin build.diffFailed
                                        THEN @ \cup {v} ELSE @]
         o == [output EXCEPT !.files = sign(files1, name)]
     IN /\ ~present => ~ok
        /\ faults + used <= MaxFaults
        /\ faults' = faults + used
        /\ IF ~signed
             THEN Finish("threw", Fault(b2, "sign"), cache,
                         [output EXCEPT !.files = files1])
           ELSE IF build.i < Len(build.previousReleases)
             THEN Continue([b EXCEPT !.i = @ + 1], cache, o)
           ELSE WriteManifest(b, cache, o)
  /\ UNCHANGED outside

\* mac: fs.move of one version's patch into the output directory settles; it
\* rejects when the patch is missing or the destination exists.  After the
\* last version come the checksums and the manifest.
moveDone ==
  /\ build.pc = "move"
  /\ LET v == build.previousReleases[build.i].version
         name == deltaFileName(v)
         moved == v \in DOMAIN cache.deltas /\ ~Readable(output.files, name)
         c == [cache EXCEPT !.deltas = Drop(@, v)]
         o == [output EXCEPT !.files =
                 Put(@, name, [delta |-> cache.deltas[v], signed |-> FALSE])]
         b == [build EXCEPT !.deltaJSON = Put(@, v, [path |-> name,
                                                     sha256 |-> <<>>]),
                            !.produced = IF v \notin build.diffFailed
                                           THEN @ \cup {v} ELSE @]
     IN IF ~moved
          THEN Finish("threw", build, cache, output)
        ELSE IF build.i < Len(build.previousReleases)
          THEN Continue([b EXCEPT !.i = @ + 1], c, o)
        ELSE WriteManifest(b, c, o)
  /\ UNCHANGED <<outside, faults>>

NextBuild ==
  \/ createAllDeltas
  \/ \E ok \in BOOLEAN : getPreviousReleasesDone(ok)
  \/ \E ok \in BOOLEAN : downloadFileIfNotExistsDone(ok)
  \/ \E ok \in BOOLEAN, exe \in BOOLEAN : extract7zipDone(ok, exe)
  \/ \E ok \in BOOLEAN : extractLatestDone(ok)
  \/ \E failed \in SUBSET (1..MaxReleases) : emptyDirDone(failed)
  \/ \E ok \in BOOLEAN, signed \in BOOLEAN : buildDone(ok, signed)
  \/ moveDone

SpecBuild == InitBuild /\ [][NextBuild]_vars

----------------------------------------------------------------------------
(* DeltaBuilder.build (delta-builder/index.ts): the loop over the keys of    *)
(* platformToTargets, one awaited createAllDeltas call per win or mac       *)
(* platform.  The artifact of the latest release is taken to be among       *)
(* artifactPaths.  Each platform has an output directory of its own.        *)

\* platform.buildConfigurationKey of the keys of platformToTargets.
PlatformLists ==
  {<<"win">>, <<"mac">>, <<"win", "mac">>, <<"mac", "win">>,
   <<"linux", "win">>, <<"linux">>}

Supported(p) == p \in {"win", "mac"}

\* A path of buildFiles: a file of a platform's output directory (a
\* published file of a version, or the manifest) or a helper binary.
BuildFile(p, name, version) ==
  [platform |-> p, name |-> name, version |-> version]

\* macOSBinaries
macOSBinaries ==
  {BuildFile("mac", "hpatchz", 0), BuildFile("mac", "mac-updater", 0)}

RECURSIVE SkipUnsupported(_)
\* The iterations of the loop that match neither 'win' nor 'mac'.
SkipUnsupported(platforms) ==
  IF platforms # <<>> /\ ~Supported(Head(platforms))
    THEN SkipUnsupported(Tail(platforms))
    ELSE platforms

PushedAlways(h) ==
  {BuildFile(h.platform, "delta.json", 0)}

\* if (files && files.length) buildFiles.push(...files): the files of the
\* platform's output directory, the manifest among them.
Pushed(h) ==
  IF h.result = "files"
    THEN {BuildFile(h.platform, f.ext, f.version) : f \in h.files}
         \cup {BuildFile(h.platform, "delta.json", 0)}
    ELSE {}

\* The loop goes on with the platforms left: it calls createAllDeltas for
\* the next win or mac platform and awaits it, or build returns buildFiles.
Loop(db) ==
  LET left == SkipUnsupported(db.platforms)
  IN IF left = <<>>
       THEN /\ deltaBuilder' = [db EXCEPT !.pc = "returned", !.platforms = <<>>]
            /\ UNCHANGED <<buildPlatform, build, output>>
       ELSE /\ deltaBuilder' = [db EXCEPT !.pc = "awaiting", !.platforms = left]
            /\ buildPlatform' = Head(left)
            /\ build' = [Idle EXCEPT !.pc = "index",
                                     !.inflight = {[kind |-> "index", k |-> 0]}]
            /\ output' = EmptyOutput

InitDeltaBuilder ==
  /\ InitBuild
  /\ buildPlatform = "win"

\* DeltaBuilder.build({ context, options }) is called.
DeltaBuilderBuild(platformToTargets) ==
  /\ deltaBuilder.pc = "none"
  /\ build.pc = "idle"
  /\ history = <<>>
  /\ Loop([pc |-> "called", platforms |-> platformToTargets,
           all |-> platformToTargets, buildFiles |-> {}])
  /\ UNCHANGED <<client, releaseIndex, cache, history, faults, resolver>>

\* The awaited createAllDeltas call has settled.  A rejection is not caught:
\* build rejects and the platforms left are not processed.  Otherwise the
\* files are pushed, on mac the helper binaries too, and the loop goes on.
createAllDeltasSettled ==
  /\ deltaBuilder.pc = "awaiting"
  /\ build.pc = "idle"
  /\ LET h == history[Len(history)]
         helperFiles == IF h.platform = "mac" THEN macOSBinaries ELSE {}
     IN IF h.result = "threw"
          THEN /\ deltaBuilder' = [deltaBuilder EXCEPT !.pc = "threw"]
               /\ UNCHANGED <<buildPlatform, build, output>>
          ELSE Loop([deltaBuilder EXCEPT
                       !.platforms = Tail(@),
                       !.buildFiles = @ \cup Pushed(h) \cup helperFiles])
  /\ UNCHANGED <<client, releaseIndex, cache, history, faults, resolver>>

NextDeltaBuilder ==
  \/ \E platformToTargets \in PlatformLists : DeltaBuilderBuild(platformToTargets)
  \/ createAllDeltasSettled
  \/ \E ok \in BOOLEAN : getPreviousReleasesDone(ok)
  \/ \E ok \in BOOLEAN : downloadFileIfNotExistsDone(ok)
  \/ \E ok \in BOOLEAN, exe \in BOOLEAN : extract7zipDone(ok, exe)
  \/ \E ok \in BOOLEAN : extractLatestDone(ok)
  \/ \E failed \in SUBSET (1..MaxReleases) : emptyDirDone(failed)
  \/ \E ok \in BOOLEAN, signed \in BOOLEAN : buildDone(ok, signed)
  \/ moveDone

SpecDeltaBuilder == InitDeltaBuilder /\ [][NextDeltaBuilder]_vars

----------------------------------------------------------------------------
(* The supplied resolver of prior releases (src/unnamed/part_000,            *)
(* getPreviousReleases).  A download URL is its path before the file name   *)
(* and the file name, each cut into the pieces the resolver's string tests  *)
(* look at; version 1.0.0 is written 1, 1.1.0 is written 2, 1.2.0 is 3.     *)

MaxIndexLen == 2

Url(num, untagged, name) ==
  [path |-> <<"releases", "download", IF untagged THEN "untagged" ELSE "tag">>,
   release |-> num,
   name |-> name]

\* The lists of asset names a release of the index can have.
AssetLists ==
  {<<>>,
   << <<"App", ".exe">> >>,
   << <<"App", ".exe">>, <<"App", "-Setup", ".exe">> >>,
   << <<"App", "-delta", ".exe">> >>,
   << <<"App", ".exe">>, <<"App", ".exe", ".blockmap">> >>,
   << <<"App", ".7z">>, <<"App", ".exe">> >>,
   << <<"App", ".zip">> >>,
   << <<"App", "-x64", ".zip">>, <<"App", "-arm64", ".zip">> >>}

\* A release of the GitHub index: tag_name and the browser_download_url of
\* its assets; the assets of a draft have 'untagged' in their URLs.
IndexRelease(num, untagged, names) ==
  [tag_name |-> [prefixed |-> TRUE, num |-> num],
   assets |-> [a \in 1..Len(names) |-> Url(num, untagged, names[a])]]

\* The index of the scenario: 1.0.0 with a plain installer, 1.1.0 with a
\* plain installer and a Setup installer, 1.2.0 with a delta installer.
ScenarioIndex ==
  <<IndexRelease(1, FALSE, << <<"App", ".exe">> >>),
    IndexRelease(2, FALSE, << <<"App", ".exe">>, <<"App", "-Setup", ".exe">> >>),
    IndexRelease(3, FALSE, << <<"App", "-delta", ".exe">> >>)>>

\* Four releases, newest first, a plain installer and a Setup installer each.
LongIndex ==
  [i \in 1..(MaxIndexLen + 2) |->
     IndexRelease(MaxIndexLen + 3 - i, FALSE,
                  << <<"App", ".exe">>, <<"App", "-Setup", ".exe">> >>)]

\* The indexes of up to MaxIndexLen releases, newest first, the newest one
\* a draft or not.
Datas ==
  {ScenarioIndex, LongIndex} \cup
  UNION {{[i \in 1..n |-> IndexRelease(n + 1 - i, untagged /\ i = 1, names[i])] :
            names \in [1..n -> AssetLists], untagged \in BOOLEAN} :
         n \in 0..MaxIndexLen}

\* String.prototype.includes and endsWith on a URL.
includes(url, piece) ==
  \/ \E i \in DOMAIN url.path : url.path[i] = piece
  \/ \E i \in DOMAIN url.name : url.name[i] = piece

endsWith(url, pieces) ==
  /\ Len(url.name) >= Len(pieces)
  /\ \A i \in DOMAIN pieces :
       url.name[Len(url.name) - Len(pieces) + i] = pieces[i]

\* const ext = platform === 'win' ? (target === 'nsis-web' ? '.7z' : '.exe') : '.zip'
ext(p, target) ==
  IF p = "win" THEN (IF target = "nsis-web" THEN ".7z" ELSE ".exe") ELSE ".zip"

HasAnyExt(url, e) ==
  TRUE

\* .filter((d) => d.endsWith(ext))
HasExt(url, e) ==
  endsWith(url, <<e>>)

WantedAll(url) ==
  TRUE

\* ignore web installers or delta files
Wanted(url) ==
  ~endsWith(url, <<"-delta", ".exe">>) /\ ~includes(url, "-Setup")

RECURSIVE Keep(_, _, _)
\* The map, the two filters and the forEach over the assets of one release.
Keep(release, e, a) ==
  IF a > Len(release.assets) THEN <<>>
  ELSE LET url == release.assets[a]
       IN (IF ~includes(url, "untagged") /\ HasExt(url, e) /\ Wanted(url)
             THEN <<[version |-> release.tag_name, url |-> url]>>
             ELSE <<>>)
          \o Keep(release, e, a + 1)

RECURSIVE Reduce(_, _, _)
\* data.reduce over the releases from the k-th on.
Reduce(data, e, k) ==
  IF k > Len(data) THEN <<>>
  ELSE Keep(data[k], e, 1) \o Reduce(data, e, k + 1)

\* prevReleases.slice(0, 3)
getPreviousReleases(data, p, target) ==
  LET prevReleases == Reduce(data, ext(p, target), 1)
  IN SubSeq(prevReleases, 1, Min(Len(prevReleases), 3))

InitResolver ==
  /\ InitBuild
  /\ buildPlatform = "win"
  /\ releaseIndex = <<>>

\* getPreviousReleases({ platform, target }) is called and axios.get
\* resolves with the index.
resolve(data, p, target) ==
  /\ resolver.pc = "none"
  /\ resolver' = [pc |-> "done", data |-> data, platform |-> p,
                  target |-> target,
                  result |-> getPreviousReleases(data, p, target)]
  /\ UNCHANGED <<client, buildPlatform, releaseIndex, build, cache, output,
                 history, faults, deltaBuilder>>

NextResolver ==
  \E data \in Datas, p \in {"win", "mac"}, target \in {"nsis", "nsis-web", "zip"} :
    resolve(data, p, target)

SpecResolver == InitResolver /\ [][NextResolver]_vars

----------------------------------------------------------------------------
(* Properties *)

\* C1 (loop avoidance): a cycle whose handler read an attempt record of the
\* running version has requested the full update exactly once and has done
\* no manifest fetch, no helper download, no patch download and sent no
\* delta-ready signal.
C1_LoopAvoidance ==
  \A c \in DOMAIN cycles :
    cycles[c].recMatch =>
      /\ cycles[c].pc = "done"
      /\ cycles[c].fullReqs = 1
      /\ cycles[c].fetches = 0
      /\ cycles[c].helperDls = 0
      /\ cycles[c].patchDls = 0
      /\ ~cycles[c].signal.sent

C1_Witness ==
  \E c \in DOMAIN cycles :
    cycles[c].recMatch /\ cycles[c].pc = "done" /\ cycles[c].fullReqs = 1

\* C2 (fallback once): a cycle whose downloaded patch failed the SHA-256
\* comparison is over with exactly one full-update request, one patch
\* download and no delta-ready signal, and no later step changes it.
C2_FallbackOnce ==
  /\ [](\A c \in DOMAIN cycles :
          cycles[c].fail = "shaMismatch" =>
            /\ cycles[c].pc = "done"
            /\ cycles[c].fullReqs = 1
            /\ cycles[c].patchDls = 1
            /\ ~cycles[c].signal.sent)
  /\ [][\A c \in DOMAIN cycles :
          cycles[c].fail = "shaMismatch" /\ c \in DOMAIN cycles' =>
            cycles'[c] = cycles[c]]_vars

C2_Witness ==
  \E c \in DOMAIN cycles :
    /\ cycles[c].fail = "shaMismatch"
    /\ cycles[c].pc = "done"
    /\ cycles[c].fullReqs = 1
    /\ Digest(holder) # cycles[c].entry.sha256

\* The failures of the delta path the fallback covers.
ListedFailures ==
  {"fetchThrow", "badStatus", "badBody", "nullBody", "noEntry", "noSha",
   "dlReject"}

\* C3 (failures fall back): a cycle stopped by a manifest fetch that threw,
\* a status other than 200, an unparsable or empty body, a missing key, a
\* missing sha256 or a rejected patch download is over with one full-update
\* request, never with a rejected promise.
C3_FailuresFallBack ==
  \A c \in DOMAIN cycles :
    cycles[c].fail \in ListedFailures =>
      /\ cycles[c].pc = "done"
      /\ cycles[c].fullReqs = 1
      /\ ~cycles[c].signal.sent

C3_Witness ==
  \E c \in DOMAIN cycles :
    /\ cycles[c].fail = "dlReject"
    /\ cycles[c].pc = "done"
    /\ cycles[c].fullReqs = 1
    /\ cycles[c].patchDls = 1

\* C4 (unresolved host URL): with a stable running version and hostURL null,
\* every cycle past the read of the attempt record is over with one
\* full-update request.
C4_CycleEndsWithFullRequest ==
  \A c \in DOMAIN cycles :
    (hostURL = NoURL /\ pathsSet /\ cycles[c].pc # "readRecord") =>
      cycles[c].pc = "done" /\ cycles[c].fullReqs = 1

C6_DeltaReadyVerified ==
  [][\A c \in DOMAIN cycles :
       (c \in DOMAIN cycles' /\ ~cycles[c].signal.sent
          /\ cycles'[c].signal.sent) =>
         /\ holder' # Absent
         /\ computeSHA256(holder') = cycles'[c].entry.sha256
         /\ cycles'[c].entry.present
         /\ cycles'[c].signal.deltaPath = HolderPath(cycles'[c].entry.path)
         /\ cycles'[c].signal.version = cycles[c].version
         /\ autoUpdateInfo' = [set |-> TRUE, delta |-> TRUE,
                               deltaPath |-> HolderPath(cycles'[c].entry.path),
                               version |-> cycles[c].version]]_vars

C6_Witness ==
  \E c \in DOMAIN cycles :
    /\ cycles[c].signal.sent
    /\ cycles[c].patchDls = 1
    /\ cycles[c].version = "2.1.0"
    /\ autoUpdateInfo.delta

\* C7 (cache hit): a cycle that found the patch file with the entry's
\* SHA-256 issued no patch download and sent delta-ready for that file; a
\* cycle that found it absent or different is creating the holder directory
\* or has issued the download, and sent no signal without downloading.
C7_CacheHit ==
  \A c \in DOMAIN cycles :
    /\ cycles[c].cache = "hit" =>
         /\ cycles[c].patchDls = 0
         /\ cycles[c].signal.sent
         /\ cycles[c].signal.deltaPath = HolderPath(cycles[c].entry.path)
    /\ cycles[c].cache = "miss" =>
         /\ cycles[c].pc = "ensureDir" \/ cycles[c].patchDls = 1
         /\ cycles[c].pc = "ensureDir" => cycles[c].patchDls = 0 /\ ~cycles[c].signal.sent

C7_Witness ==
  \E c, d \in DOMAIN cycles :
    /\ cycles[c].cache = "hit" /\ cycles[c].signal.sent /\ cycles[c].patchDls = 0
    /\ cycles[d].cache = "miss" /\ cycles[d].patchDls = 1

\* C8 (one full-update request per cycle): no cycle has requested the full
\* update more than once.
C8_AtMostOneFullRequest ==
  \A c \in DOMAIN cycles : cycles[c].fullReqs <= 1

\* C9 (unconditional polling): while a packaged application runs, the timer
\* is armed, one check was issued at attach and one per tick, and the next
\* tick can fire whatever else is going on.
C9_PollingUnconditional ==
  listening =>
    /\ timerArmed
    /\ checkCalls = ticks + 1
    /\ ticks < MaxTicks => ENABLED tick

C9_Witness ==
  /\ listening
  /\ ticks = MaxTicks
  /\ checkCalls = MaxTicks + 1
  /\ "native" \in errs.emitted
  /\ \E c \in DOMAIN cycles : cycles[c].pc = "streaming"

\* A run of doSmartDownload that is waiting for a fetch, a helper, the
\* holder directory or the patch download.
InDeltaPath(cy) ==
  cy.pc \in {"fetching", "helper1", "helper2", "chmod1", "chmod2", "ensureDir",
             "requesting", "streaming"}

\* C10 (no concurrent cycles): at most one run of doSmartDownload is in
\* progress.
C10_NoConcurrentCycles ==
  Cardinality({c \in DOMAIN cycles : InDeltaPath(cycles[c])}) <= 1

\* The entries of apply that belong to an immediate apply (quitAndInstall).
Immediate == {i \in DOMAIN apply : apply[i].pc # "quit"}

\* The record writeAutoUpdateDetails is to persist for an apply entry.
AttemptRecord(e) ==
  [exists |-> TRUE, isDelta |-> e.delta, attemptedVersion |-> e.version,
   appVersion |-> appVersion]

\* C11 as stated: on win32 every immediate apply that quiesced the
\* application persisted its attempt record first.
C11_RecordPersistedFirst ==
  \A i \in Immediate :
    (platform = "win32" /\ Len(apply[i].log) > 0) =>
      apply[i].log[1] = "record" /\ apply[i].rec = AttemptRecord(apply[i])

\* C11 (record before apply): on win32 every immediate apply, delta or full,
\* awaits the write of its attempt record before it quiesces the application
\* and before the hand-off; the write either persisted the record {isDelta
\* of the path taken, attemptedVersion of the update, appVersion running} or
\* failed, was logged and left the file as it was.
C11_RecordAttemptedFirst ==
  \A i \in Immediate :
    (platform = "win32" /\ Len(apply[i].log) > 0) =>
      /\ apply[i].log[1] \in {"record", "recordFailed"}
      /\ apply[i].log[2] = "quiesce"
      /\ \A k \in DOMAIN apply[i].log :
           apply[i].log[k] \in {"handoff", "handoffThrew"} => k > 2
      /\ apply[i].log[1] = "record" => apply[i].rec = AttemptRecord(apply[i])
      /\ apply[i].pc = "handedOff" /\ apply[i].log[1] = "record" =>
           updateDetails.exists /\ updateDetails.appVersion = appVersion

C11_Witness ==
  /\ platform = "win32"
  /\ \E i \in Immediate :
       /\ apply[i].pc = "handedOff"
       /\ apply[i].delta
       /\ apply[i].log = <<"record", "quiesce", "handoff", "quit">>
       /\ updateDetails = AttemptRecord(apply[i])

\* C12 (apply on quit): on win32 a quit with a recorded update persists the
\* attempt record, quiesces the application and then hands off.
C12_QuitPersistsThenHandsOff ==
  \A i \in DOMAIN apply :
    (platform = "win32" /\ apply[i].pc = "quit") =>
      /\ Len(apply[i].log) >= 3
      /\ apply[i].log[1] = "record"
      /\ apply[i].log[2] = "quiesce"
      /\ apply[i].log[3] = "handoff"

C14_FailedHandoffStillQuits ==
  \A i \in DOMAIN apply :
    "handoffThrew" \in {apply[i].log[k] : k \in DOMAIN apply[i].log} =>
      /\ "logThrew" \notin {apply[i].log[k] : k \in DOMAIN apply[i].log}
      /\ phase = "exited"

C17_NoRecordOnDarwin ==
  platform = "darwin" =>
    /\ updateDetails = NoRecord
    /\ \A i \in DOMAIN apply : apply[i].rec = NoRecord
    /\ \A c \in DOMAIN cycles :
         ~cycles[c].recMatch /\ cycles[c].fail # "lastAttempt"

C17_Witness ==
  /\ platform = "darwin"
  /\ updateDetails = NoRecord
  /\ \E i \in DOMAIN apply : apply[i].pc = "failed" /\ apply[i].delta
  /\ \E c \in DOMAIN cycles :
       cycles[c].pc = "done" /\ cycles[c].fetches = 1 /\ cycles[c].version = "2.1.0"

\* C18 (record lifecycle): a step never removes an existing record, it
\* changes it only into the record of an apply attempt of the running
\* version; and a cycle takes the loop-avoidance branch only on a record of
\* the running version, a record of another version leaves it on the delta
\* path.
C18_RecordLifecycle ==
  /\ [][updateDetails.exists =>
          /\ updateDetails'.exists
          /\ updateDetails' # updateDetails =>
               /\ updateDetails'.appVersion = appVersion
               /\ \E i \in DOMAIN apply' : apply'[i].rec = updateDetails']_vars
  /\ [](\A c \in DOMAIN cycles :
          cycles[c].fail = "lastAttempt" <=> cycles[c].recMatch)

C18_Witness ==
  /\ updateDetails.exists
  /\ updateDetails.appVersion # appVersion
  /\ \E c \in DOMAIN cycles :
       cycles[c].pc = "done" /\ cycles[c].fetches = 1 /\ cycles[c].signal.sent

\* C15 (redirects are followed): a 301 / 302 answer re-issues the request
\* for the same cycle, leaving its destination and what it has downloaded
\* untouched; when the stream of a redirected download finishes, the awaiting
\* doSmartDownload goes on to verify the file that was written, which is
\* signalled if it has the entry's SHA-256 and falls back otherwise.
C15_RedirectFollowed ==
  [][\A c \in DOMAIN cycles :
       c \in DOMAIN cycles' =>
         /\ (cycles[c].pc = "requesting"
               /\ cycles'[c].redirects = cycles[c].redirects + 1) =>
              /\ cycles'[c] = [cycles[c] EXCEPT !.redirects = @ + 1]
              /\ holder' = holder
         /\ (cycles[c].pc = "streaming" /\ cycles[c].redirects > 0
               /\ cycles'[c].pc # "streaming" /\ cycles'[c].fail # "dlHung") =>
              /\ cycles'[c].pc = "done"
              /\ cycles'[c].redirects = cycles[c].redirects
              /\ cycles'[c].patchDls = 1
              /\ IF computeSHA256(holder') = cycles[c].entry.sha256
                   THEN cycles'[c].signal.sent
                   ELSE cycles'[c].fail = "shaMismatch"]_vars

C15_Witness ==
  \E c \in DOMAIN cycles :
    /\ cycles[c].pc = "done"
    /\ cycles[c].redirects = MaxRedirects
    /\ cycles[c].signal.sent
    /\ cycles[c].signal.deltaPath = HolderPath(PatchName)
    /\ computeSHA256(holder) = cycles[c].entry.sha256

----------------------------------------------------------------------------
(* Properties of the build-time pipeline (SpecBuild) *)

C20_SecondRunIdempotent ==
  \A k \in 2..Len(history) :
    (history[k - 1].result = "files" /\ ~history[k].faulty) =>
      /\ history[k].downloads = 0
      /\ history[k].extractions = 0
      /\ history[k].result = "files"
      /\ history[k].manifest = history[k - 1].manifest

\* C20, as the code has it: such a run performs no download and extracts
\* nothing but the latest release, which it extracts once more, and writes
\* the manifest the earlier run wrote.
C20_IdempotentButLatest ==
  \A k \in 2..Len(history) :
    (history[k - 1].result = "files" /\ ~history[k].faulty) =>
      /\ history[k].downloads = 0
      /\ history[k].extractions = 1
      /\ history[k].result = "files"
      /\ history[k].manifest = history[k - 1].manifest

\* Two successful runs in a row, the second against the cache of the first.
C20_Witness ==
  /\ Len(history) = 2
  /\ history[1].result = "files"
  /\ history[1].downloads > 0
  /\ ~history[2].faulty
  /\ history[2].result = "files"
  /\ history[2].manifest # <<>>

\* C21: when hdiffz fails for a prior version and nothing else fails, the
\* run still returns normally and has written a manifest whose entries are
\* the versions whose patch succeeded.
C21_DiffFailureIsolated ==
  \A k \in DOMAIN history :
    history[k].kinds = {"diff"} =>
      /\ history[k].result = "files"
      /\ history[k].manifest # <<>>
      /\ DOMAIN history[k].manifest[1].versions =
           history[k].versions \ history[k].diffFailed

\* C22: the version keys of a manifest a run has written are exactly the
\* prior versions whose patch (on win, and its installer) the run produced.
C22_KeysAreProduced ==
  \A k \in DOMAIN history :
    (history[k].result = "files" /\ history[k].manifest # <<>>) =>
      DOMAIN history[k].manifest[1].versions = history[k].produced

\* C24: a run whose release index call throws or returns no release returns
\* null, having done no download, extraction or diff and having left the
\* manifest as it was; no other run returns null.
C24_EmptyIndexSentinel ==
  \A k \in DOMAIN history :
    LET h == history[k]
        empty == "index" \in h.kinds \/ Len(releaseIndex) = 0
    IN /\ empty => /\ h.result = "null"
                   /\ h.downloads = 0
                   /\ h.extractions = 0
                   /\ h.log = <<>>
                   /\ h.manifest = IF k = 1 THEN <<>>
                                            ELSE history[k - 1].manifest
       /\ h.result = "null" => empty

\* A run that follows a successful one meets a throwing index.
C24_Witness ==
  /\ Len(history) = 2
  /\ history[1].result = "files"
  /\ "index" \in history[2].kinds
  /\ history[2].result = "null"
  /\ output.manifest # <<>>

\* The place of a stage in the order of C28.
StageRank(stage) ==
  CASE stage = "download" -> 1
    [] stage = "extract" -> 2
    [] stage = "diff" -> 3
    [] stage = "compile" -> 4
    [] stage = "sign" -> 5
    [] stage = "checksum" -> 6
    [] stage = "record" -> 7

StagesInOrder(log) ==
  /\ \A i \in DOMAIN log, j \in DOMAIN log :
       (i < j /\ log[i].k = log[j].k) =>
          StageRank(log[i].stage) < StageRank(log[j].stage)
  /\ \A i \in DOMAIN log : log[i].stage = "checksum" => log[i].signed

----------------------------------------------------------------------------
(* Properties of DeltaBuilder.build (SpecDeltaBuilder) *)

\* C23: whatever fails while a platform is built, DeltaBuilder.build does
\* not throw, and every win or mac platform of platformToTargets is
\* processed before it settles.
C23_BuildNeverAborts ==
  /\ deltaBuilder.pc # "threw"
  /\ deltaBuilder.pc = "returned" =>
       \A i \in DOMAIN deltaBuilder.all :
         Supported(deltaBuilder.all[i]) =>
           \E k \in DOMAIN history : history[k].platform = deltaBuilder.all[i]

\* C25: DeltaBuilder.build returns no file path for a platform whose
\* createAllDeltas call returned null or no file.
C25_NothingForSentinel ==
  deltaBuilder.pc = "returned" =>
    \A k \in DOMAIN history :
      (history[k].result = "null" \/ history[k].files = {}) =>
        \A f \in deltaBuilder.buildFiles : f.platform # history[k].platform

\* C25, as the code has it: for such a platform build returns no file of an
\* output directory; on mac it still returns the two helper binaries.
C25_OnlyHelpersForSentinel ==
  deltaBuilder.pc = "returned" =>
    \A k \in DOMAIN history :
      (history[k].result = "null" \/ history[k].files = {}) =>
        {f \in deltaBuilder.buildFiles : f.platform = history[k].platform}
          = IF history[k].platform = "mac" THEN macOSBinaries ELSE {}

\* A build of win and mac has returned and one of the two produced nothing.
C25_Witness ==
  /\ deltaBuilder.pc = "returned"
  /\ Len(history) = 2
  /\ \E k \in DOMAIN history : history[k].result = "null"
  /\ \E k \in DOMAIN history : history[k].result = "files"

\* C29: at every point of a DeltaBuilder.build run at most one download, at
\* most one extraction and at most one installer compilation is in flight
\* (hdiffz runs under spawnSync, which blocks until it has ended).
C29_Sequential ==
  \A kind \in {"index", "download", "extract", "makensis"} :
    Cardinality({op \in build.inflight : op.kind = kind}) <= 1

\* The second platform's second download is in flight.
C29_Witness ==
  /\ deltaBuilder.pc = "awaiting"
  /\ Len(history) = 1
  /\ build.pc = "download"
  /\ build.i = 2
  /\ [kind |-> "download", k |-> 2] \in build.inflight

----------------------------------------------------------------------------
(* Properties of the resolver (SpecResolver) *)

ScenarioCase ==
  /\ resolver.pc = "done"
  /\ resolver.data = ScenarioIndex
  /\ resolver.platform = "win"
  /\ resolver.target = "nsis"

\* C26: for the scenario's index, platform win and target nsis, the resolver
\* yields 1.1.0 alone, with its plain .exe asset.
C26_ScenarioOnlyOneOne ==
  ScenarioCase =>
    resolver.result =
      <<[version |-> [prefixed |-> TRUE, num |-> 2],
         url |-> Url(2, FALSE, <<"App", ".exe">>)]>>

\* C26, as the code has it: the resolver yields 1.0.0 and 1.1.0, in the
\* index's order, each with its plain .exe asset; the Setup and the delta
\* installers are left out.
C26_ScenarioPlainInstallers ==
  ScenarioCase =>
    resolver.result =
      <<[version |-> [prefixed |-> TRUE, num |-> 1],
         url |-> Url(1, FALSE, <<"App", ".exe">>)],
        [version |-> [prefixed |-> TRUE, num |-> 2],
         url |-> Url(2, FALSE, <<"App", ".exe">>)]>>

C26_Witness ==
  ScenarioCase /\ Len(resolver.result) = 2

RECURSIVE Flat(_, _)
\* Every asset of the index with its release, in the index's order.
Flat(data, k) ==
  IF k > Len(data) THEN <<>>
  ELSE [a \in 1..Len(data[k].assets) |->
          [version |-> data[k].tag_name, url |-> data[k].assets[a]]]
       \o Flat(data, k + 1)

Place(all, entry) ==
  CHOOSE q \in DOMAIN all : all[q] = entry

\* C27: the resolved history holds only assets of the index whose URL ends
\* with the extension of the platform and target, none marked untagged,
\* -Setup or -delta.exe, in the index's order; it has at most 3 entries and
\* the pipeline takes at most 10 of them.
C27_ResolvedHistory ==
  resolver.pc = "done" =>
    LET result == resolver.result
        all == Flat(resolver.data, 1)
        e == IF resolver.platform = "mac" THEN ".zip"
             ELSE IF resolver.target = "nsis-web" THEN ".7z" ELSE ".exe"
    IN /\ \A i \in DOMAIN result :
            /\ \E q \in DOMAIN all : all[q] = result[i]
            /\ endsWith(result[i].url, <<e>>)
            /\ ~includes(result[i].url, "untagged")
            /\ ~includes(result[i].url, "-Setup")
            /\ ~endsWith(result[i].url, <<"-delta", ".exe">>)
       /\ \A i \in DOMAIN result, j \in DOMAIN result :
            i < j => Place(all, result[i]) < Place(all, result[j])
       /\ Len(result) <= 3
       /\ Len(slice(result)) <= 10

\* Three installers resolved from an index that also has Setup installers.
C27_Witness ==
  /\ resolver.pc = "done"
  /\ Len(resolver.result) = 3
  /\ \E k \in DOMAIN resolver.data : \E a \in DOMAIN resolver.data[k].assets :
       includes(resolver.data[k].assets[a], "-Setup")

\* C30: no two entries of the resolved history have the same version.
C30_OneEntryPerVersion ==
  resolver.pc = "done" =>
    \A i \in DOMAIN resolver.result, j \in DOMAIN resolver.result :
      i # j => semverClean(resolver.result[i].version)
                 # semverClean(resolver.result[j].version)

----------------------------------------------------------------------------
(* Properties of the client's recorded update and of its apply (Spec) *)

\* handleUpdateDownloaded has run in the step: it schedules an apply or
\* shows a notification.
Delivered ==
  applyTimers' + notifications' > applyTimers + notifications

\* The info of the update-downloaded event of the step: the delta-ready
\* signal of a cycle, or the native updater's own event.
DeliveredInfo ==
  IF \E c \in DOMAIN cycles :
       c \in DOMAIN cycles' /\ ~cycles[c].signal.sent /\ cycles'[c].signal.sent
    THEN LET c == CHOOSE c \in DOMAIN cycles :
                    ~cycles[c].signal.sent /\ cycles'[c].signal.sent
         IN [set |-> TRUE, delta |-> TRUE,
             deltaPath |-> cycles'[c].signal.deltaPath,
             version |-> cycles'[c].signal.version]
    ELSE [set |-> TRUE, delta |-> FALSE, deltaPath |-> <<>>,
          version |-> nativeInfo]

\* C31 (last writer wins): every update-downloaded event, delta or full,
\* replaces autoUpdateInfo by its info and nothing else writes it while the
\* process runs; an apply that starts takes the update autoUpdateInfo holds
\* at that moment, and the hand-off is made for the update the apply took.
C31_LastWriterWins ==
  [][/\ Delivered => autoUpdateInfo' = DeliveredInfo
     /\ (~Delivered /\ phase' # "exited") => autoUpdateInfo' = autoUpdateInfo
     /\ (Len(apply') = Len(apply) + 1 /\ phase' # "exited") =>
          LET e == apply'[Len(apply')] IN
            /\ autoUpdateInfo.set
            /\ e.delta = autoUpdateInfo.delta
            /\ e.deltaPath = autoUpdateInfo.deltaPath
            /\ e.version = autoUpdateInfo.version
     /\ \A i \in DOMAIN apply :
          (apply[i].pc \in {"writing", "installTimer"}
             /\ Len(apply') >= 1 /\ phase' = "exited"
             /\ apply'[1].pc = "handedOff") =>
            \E j \in DOMAIN apply :
              /\ apply[j].pc \in {"writing", "installTimer"}
              /\ apply'[1].delta = apply[j].delta
              /\ apply'[1].deltaPath = apply[j].deltaPath
              /\ apply'[1].version = apply[j].version
              /\ (apply'[1].delta /\ platform = "win32") =>
                   apply'[1].cmd.exe = apply[j].deltaPath]_vars

\* A second update-downloaded event has replaced the update of the first and
\* the apply that started took the second.
C31_Witness ==
  /\ Len(cycles) >= 1
  /\ cycles[1].signal.sent
  /\ cycles[1].signal.version = "2.0.0"
  /\ autoUpdateInfo.version = "2.1.0"
  /\ \E i \in DOMAIN apply :
       apply[i].pc = "writing" /\ apply[i].version = "2.1.0"

Count(log, what) ==
  Cardinality({k \in DOMAIN log : log[k] \in what})

\* C32 (one hand-off per apply): an immediate apply that has handed off made
\* one hand-off and at most one write of the attempt record; the quit
\* handler of the shutdown that follows added neither.
C32_HandOffOnce ==
  \A i \in Immediate :
    apply[i].pc = "handedOff" =>
      /\ Count(apply[i].log, {"handoff"}) = 1
      /\ Count(apply[i].log, {"record", "recordFailed", "recordSkipped"}) = 1
      /\ \A k \in DOMAIN apply[i].log :
           apply[i].log[k] = "handoff" =>
             \A n \in DOMAIN apply[i].log :
               n > k => apply[i].log[n] \in {"quit", "handlerThrew"}
      /\ phase = "exited"

\* A full update was applied at once and the quit handler ran in the
\* shutdown; a delta update was applied at once and it did not.
C32_Witness ==
  /\ phase = "exited"
  /\ platform = "win32"
  /\ \E i \in Immediate :
       /\ apply[i].pc = "handedOff"
       /\ ~apply[i].delta
       /\ apply[i].log = <<"record", "quiesce", "handoff", "handlerThrew">>

\* C33 (the applied patch is the verified one): when a delta apply hands
\* off, the file at its patch path still has the SHA-256 of the manifest
\* entry it was verified against when delta-ready was signalled for it.
C33_AppliedPatchVerified ==
  [][\A i \in DOMAIN apply :
       (apply[i].pc = "writing" /\ apply[i].delta
          /\ phase' = "exited" /\ Len(apply') = 1
          /\ apply'[1].pc = "handedOff" /\ apply'[1].delta) =>
         \A c \in DOMAIN cycles :
           (cycles[c].signal.sent
              /\ cycles[c].signal.deltaPath = apply'[1].deltaPath) =>
             computeSHA256(holder) = cycles[c].entry.sha256]_vars

\* C34 (the download promise settles): no cycle is left awaiting a
\* downloadFile promise that nothing can settle any more.
C34_DownloadSettles ==
  \A c \in DOMAIN cycles : cycles[c].pc # "hung"

\* Something is in flight whose completion runs client code: the dev
\* timer, an index lookup, a native check or download, or a cycle that is
\* awaiting a promise that can still settle.
InFlight ==
  \/ phase = "devwait"
  \/ lookups > 0
  \/ nativeChecking
  \/ nativeDownloads > 0
  \/ \E c \in DOMAIN cycles : cycles[c].pc \notin {"done", "rejected", "hung"}

\* C35 (boot with a splash screen completes): while the boot promise is
\* pending, something is in flight that will settle it; it is never left
\* pending with the splash window open and nothing to wait for.
C35_BootSettles ==
  bootPromise = "pending" => InFlight

\* C36 (the announced version is the patch's version): a cycle signals
\* delta-ready for a version only if the manifest it fetched has that
\* version as its latestVersion.
C36_SignalledVersionIsManifests ==
  \A c \in DOMAIN cycles :
    cycles[c].signal.sent => cycles[c].latest = cycles[c].signal.version

\* The downloaded files a delta hand-off executes: the patch installer on
\* win32, the updater helper and the patch-apply helper on darwin.
Executed ==
  IF platform = "darwin" THEN {"mac-updater", "hpatchz"} ELSE {"patch"}

\* C37 (verified before execution): when a delta apply hands off, every
\* downloaded file it executes was compared with a checksum of the manifest
\* by the cycle that signalled delta-ready for the patch.
C37_ExecutedFilesVerified ==
  [][\A i \in DOMAIN apply :
       (apply[i].pc = "writing" /\ apply[i].delta
          /\ phase' = "exited" /\ Len(apply') = 1
          /\ apply'[1].pc = "handedOff" /\ apply'[1].delta) =>
         \E c \in DOMAIN cycles :
           /\ cycles[c].signal.sent
           /\ cycles[c].signal.deltaPath = apply'[1].deltaPath
           /\ Executed \subseteq cycles[c].checked]_vars

----------------------------------------------------------------------------
(* Properties of the build cache (SpecBuild) *)

\* C38 (cache hits are complete downloads): whenever a run finds the file of
\* a prior release in the cache and skips its download, the file is a
\* complete download of that release's artifact.
C38_CacheHitsComplete ==
  [][(build.pc = "download" /\ build' # build) =>
       LET r == build.previousReleases[build.i] IN
         existsSync(cache.data, r.fileName) =>
           /\ cache.data[r.fileName].whole
           /\ cache.data[r.fileName].url = r.url]_vars

----------------------------------------------------------------------------
(* Properties of quitAndInstall called by the host application (SpecHost) *)

\* C39 (quitAndInstall without an update is a no-op): a call of
\* quitAndInstall while autoUpdateInfo is null writes no attempt record,
\* closes no window, schedules no apply, starts no hand-off, does not end
\* the process and leaves everything else of the client as it was.
C39_NoUpdateNoOp ==
  [][(hostCalls' = hostCalls + 1 /\ ~autoUpdateInfo.set) =>
       UNCHANGED <<platform, isPackaged, provider, appVersion, phase, hostURL,
                   updaterWindow, bootPromise, timerArmed, ticks, checkCalls,
                   lookups, nativeChecking, nativeChecks, nativeDownloads,
                   nativeInfo, cycles, updateDetails, holder, helpers,
                   autoUpdateInfo, applyTimers, notifications, apply, errs>>]_vars

\* The host has called quitAndInstall while the full update was still being
\* downloaded and the splash window was open.
C39_Witness ==
  /\ hostCalls = 1
  /\ ~autoUpdateInfo.set
  /\ phase = "running"
  /\ nativeDownloads > 0
  /\ updaterWindow
  /\ applyTimers = 0
  /\ apply = <<>>

====
